---- MODULE Spec2Model ----
(***************************************************************************)
(* A model of the kai Qt front end (nodesman/kai, qtsrc): the ChatModel    *)
(* and DiffModel list models, the file-based CommunicationManager, the     *)
(* ConversationHistory view, and the two DiffView variants.                *)
(*                                                                         *)
(* A QString is a sequence of one-character strings.  Rows of a Qt model   *)
(* are numbered from 0 in the code; a row r is element r + 1 of the        *)
(* sequence that models the list.                                          *)
(***************************************************************************)
EXTENDS Integers, Sequences, FiniteSets, TLC

VARIABLES
    m_messages,        \* ChatModel::m_messages
    m_requestPending,  \* ChatModel::m_requestPending
    chatModel,         \* ConversationHistory::chatModel ("null" or "model")
    rowsInsertedConns, \* connections rowsInserted -> ConversationHistory::onRowsInserted
    history,           \* the frames of ConversationHistory::textEdit's document
    m_filePaths,       \* DiffModel::m_filePaths
    m_fileContents,    \* DiffModel::m_fileContents
    diffView,          \* the diff viewer: DiffView, its list view, its content widget
    commFile,          \* the text of the communication file
    m_buffer,          \* CommunicationManager::m_buffer
    pendingChange,     \* a fileChanged notification waits to be handled
    extRest,           \* what the external process has yet to write of its line
    received,          \* the objects passed to processReceivedJson so far
    phase,             \* the CommunicationManager: "new", "constructed" or "failed"
    fileExists,        \* the communication file exists
    watched,           \* m_fileWatcher has the path of the communication file
    readyPending,      \* the single-shot timer that emits ready() is due
    stderrText,        \* what has been written to stderr
    diffText,          \* the argument of a parseDiffContent call
    parsed,            \* what the call returned (empty before it returns)
    emitted,           \* the signals emitted by the last operation, in order
    call               \* the last operation and its arguments

chatVars == <<m_messages, m_requestPending>>
histVars == <<chatModel, rowsInsertedConns, history>>
diffVars == <<m_filePaths, m_fileContents>>
viewVars == <<diffView>>
parseVars == <<diffText, parsed>>
startVars == <<phase, readyPending, stderrText>>
watchVars == <<fileExists, watched>>
commVars == <<commFile, m_buffer, pendingChange, extRest, received, startVars, watchVars>>

vars == <<chatVars, histVars, diffVars, viewVars, parseVars, commVars, emitted, call>>

-----------------------------------------------------------------------------
(* Bounds of the model.                                                    *)

MaxMessages == 3
MaxFiles == 2
MaxRows == 2
MaxContentLen == 4
MaxLines == 3
MaxHunkLines == 4

-----------------------------------------------------------------------------
(* QString helpers.                                                        *)

\* QString::indexOf(ch): the 0-based position of the first ch, or -1.
RECURSIVE IndexOfFrom(_, _, _)
IndexOfFrom(s, ch, i) ==
    IF i > Len(s) THEN -1
    ELSE IF s[i] = ch THEN i - 1
    ELSE IndexOfFrom(s, ch, i + 1)

indexOf(s, ch) == IndexOfFrom(s, ch, 1)

\* QString::left(n): the first n characters.
left(s, n) == SubSeq(s, 1, n)

\* QString::mid(n): the string without its first n characters.
mid(s, n) == SubSeq(s, n + 1, Len(s))

\* QString::startsWith(prefix)
startsWith(s, p) == Len(s) >= Len(p) /\ SubSeq(s, 1, Len(p)) = p

-----------------------------------------------------------------------------
(* ChatModel (models/chatmodel.cpp)                                        *)

MessageType == {"User", "LLM"}

\* static_cast<int>(ChatModel::MessageType)
MessageTypeInt(t) == IF t = "User" THEN 0 ELSE 1

\* static_cast<ChatModel::MessageType>(int)
MessageTypeOf(i) == IF i = 0 THEN "User" ELSE "LLM"

ChatRoles == {"MessageTypeRole", "MessageTextRole"}

\* A QVariant: invalid, an int, or a string.
InvalidVariant == [valid |-> FALSE, i |-> 0, s |-> <<>>]
IntVariant(n) == [valid |-> TRUE, i |-> n, s |-> <<>>]
StringVariant(str) == [valid |-> TRUE, i |-> 0, s |-> str]

ChatModel_rowCount(msgs) == Len(msgs)

ChatModel_data(msgs, row, role) ==
    IF row < 0 \/ row >= Len(msgs) THEN InvalidVariant
    ELSE CASE role = "MessageTypeRole" -> IntVariant(MessageTypeInt(msgs[row + 1].type))
           [] role = "MessageTextRole" -> StringVariant(msgs[row + 1].text)
           [] OTHER -> InvalidVariant

\* A plausible slip: the new message is inserted in front of the list.
addMessagePrepend(msgs, type, text) == <<[type |-> type, text |-> text]>> \o msgs

\* m_messages.append({type, text})
addMessage(msgs, type, text) == Append(msgs, [type |-> type, text |-> text])

\* if (m_requestPending != value) { m_requestPending = value; emit ... }
setRequestPending(pending, value) == value

setRequestPendingEmits(pending, value) ==
    IF pending # value THEN <<"requestPendingChanged">> ELSE <<>>

-----------------------------------------------------------------------------
(* ConversationHistory (components/chatinterface/conversationhistory.cpp)  *)

\* The text updateHistory substitutes for an empty message.
EmptyMessageText ==
    <<"[", "E", "m", "p", "t", "y", " ", "m", "e", "s", "s", "a", "g", "e", "]">>

\* Whether the delimiter d stands at position i (1-based) of s.
DelimAt(s, d, i) == i + Len(d) - 1 <= Len(s) /\ SubSeq(s, i, i + Len(d) - 1) = d

\* The first position >= i where d stands, or 0.
RECURSIVE NextDelim(_, _, _)
NextDelim(s, d, i) ==
    IF i > Len(s) THEN 0
    ELSE IF DelimAt(s, d, i) THEN i
    ELSE NextDelim(s, d, i + 1)

HasNewline(s) == \E k \in 1..Len(s) : s[k] = "\n"

\* html.replace(QRegularExpression("d(.*?)d"), "<open>\\1<close>"): every
\* leftmost non-overlapping d...d pair (the lazy group takes the nearest
\* closing d, and '.' does not match a line break) is replaced.
RECURSIVE ReplaceDelimFrom(_, _, _, _, _)
ReplaceDelimFrom(s, d, open, close, i) ==
    IF i > Len(s) THEN <<>>
    ELSE LET j == IF DelimAt(s, d, i) THEN NextDelim(s, d, i + Len(d)) ELSE 0
         IN  IF j > 0 /\ ~HasNewline(SubSeq(s, i + Len(d), j - 1))
             THEN <<open>> \o SubSeq(s, i + Len(d), j - 1) \o <<close>>
                  \o ReplaceDelimFrom(s, d, open, close, j + Len(d))
             ELSE <<s[i]>> \o ReplaceDelimFrom(s, d, open, close, i + 1)

ReplaceDelim(s, d, open, close) == ReplaceDelimFrom(s, d, open, close, 1)

\* html.replace("\n", "<br>")
ReplaceNewlines(s) == [k \in 1..Len(s) |-> IF s[k] = "\n" THEN "<br>" ELSE s[k]]

\* convertMarkdownToHtml: an HTML tag is one element of the result.  The
\* rules for bold, italics, strikethrough and line breaks are modelled; the
\* texts of the model hold no back quote, no '#', no list marker followed
\* by white space and no "](", which the remaining rules need.
convertMarkdownToHtml(markdown) ==
    LET bold   == ReplaceDelim(markdown, <<"*", "*">>, "<strong>", "</strong>")
        em     == ReplaceDelim(bold, <<"*">>, "<em>", "</em>")
        em2    == ReplaceDelim(em, <<"_">>, "<em>", "</em>")
        del    == ReplaceDelim(em2, <<"~", "~">>, "<del>", "</del>")
    IN  ReplaceNewlines(del)

\* One pass of updateHistory's loop: the frame inserted for row i (0-based).
HistoryFrame(msgs, i) ==
    LET typeVariant == ChatModel_data(msgs, i, "MessageTypeRole")
        textVariant == ChatModel_data(msgs, i, "MessageTextRole")
        msgType == MessageTypeOf(typeVariant.i)
        msgText == IF textVariant.s = <<>> THEN EmptyMessageText ELSE textVariant.s
    IN  [align |-> IF msgType = "User" THEN "AlignRight" ELSE "AlignLeft",
         html  |-> convertMarkdownToHtml(msgText)]

\* Rows whose QVariants are both valid (the others are skipped with continue).
RECURSIVE HistoryFramesFrom(_, _)
HistoryFramesFrom(msgs, i) ==
    IF i >= ChatModel_rowCount(msgs) THEN <<>>
    ELSE IF ~ChatModel_data(msgs, i, "MessageTypeRole").valid
            \/ ~ChatModel_data(msgs, i, "MessageTextRole").valid
         THEN HistoryFramesFrom(msgs, i + 1)
         ELSE <<HistoryFrame(msgs, i)>> \o HistoryFramesFrom(msgs, i + 1)

\* A plausible slip: updateHistory without textEdit->clear().
updateHistoryNoClear(model, old, msgs) ==
    IF model = "null" THEN old ELSE old \o HistoryFramesFrom(msgs, 0)

\* updateHistory: nothing without a model; else the document is cleared and
\* one frame is inserted per row.
updateHistory(model, old, msgs) ==
    IF model = "null" THEN old ELSE HistoryFramesFrom(msgs, 0)

\* The slot runs once per connection.
RECURSIVE onRowsInserted(_, _, _, _)
onRowsInserted(conns, model, old, msgs) ==
    IF conns = 0 THEN old
    ELSE onRowsInserted(conns - 1, model, updateHistory(model, old, msgs), msgs)

-----------------------------------------------------------------------------
(* DiffModel (models/diffmodel.cpp)                                        *)

DiffModel_rowCount(paths) == Len(paths)

\* QAbstractListModel::index(row, 0): the row, or -1 for an invalid index.
DiffModel_index(paths, row) ==
    IF row >= 0 /\ row < DiffModel_rowCount(paths) THEN row ELSE -1

\* QList::removeAt(i) (Qt 5): nothing is removed when i is out of range.
removeAt(list, i) ==
    IF i >= 0 /\ i < Len(list)
    THEN SubSeq(list, 1, i) \o SubSeq(list, i + 2, Len(list))
    ELSE list

\* DiffModel::data: the QVariant read for a row and a role.  at() past the
\* end of a list is marked outOfRange (an assertion failure in Qt).
DiffModel_data(paths, contents, row, role) ==
    IF row < 0 \/ row >= Len(paths) THEN [valid |-> FALSE, outOfRange |-> FALSE, s |-> <<>>]
    ELSE CASE role \in {"FilePathRole", "DisplayRole"} ->
                 [valid |-> TRUE, outOfRange |-> FALSE, s |-> paths[row + 1]]
           [] role = "FileContentRole" ->
                 IF row < Len(contents)
                 THEN [valid |-> TRUE, outOfRange |-> FALSE, s |-> contents[row + 1]]
                 ELSE [valid |-> FALSE, outOfRange |-> TRUE, s |-> <<>>]
           [] OTHER -> [valid |-> FALSE, outOfRange |-> FALSE, s |-> <<>>]

getFileContent(contents, index) ==
    IF index >= 0 /\ index < Len(contents) THEN contents[index + 1] ELSE <<>>

getFilePath(paths, index) ==
    IF index >= 0 /\ index < Len(paths) THEN paths[index + 1] ELSE <<>>

\* A plausible slip: setFiles keeps the old rows and appends the new ones.
setFilesAppend(paths, contents, filePaths, fileContents) ==
    [paths |-> paths \o filePaths, contents |-> contents \o fileContents]

\* DiffModel::setFiles: both lists are replaced by the arguments as given.
setFiles(paths, contents, filePaths, fileContents) ==
    [paths |-> filePaths, contents |-> fileContents]

\* A plausible slip: only the path list is cleared.
clearDiffModelKeepsContents(paths, contents) == [paths |-> <<>>, contents |-> contents]

clearDiffModel(paths, contents) == [paths |-> <<>>, contents |-> <<>>]

addFile(paths, contents, filePath, fileContent) ==
    [paths |-> Append(paths, filePath), contents |-> Append(contents, fileContent)]

removeFile(paths, contents, index) ==
    IF index >= 0 /\ index < DiffModel_rowCount(paths)
    THEN [paths |-> removeAt(paths, index), contents |-> removeAt(contents, index)]
    ELSE [paths |-> paths, contents |-> contents]

changeFileContent(paths, contents, index, newContent) ==
    IF index >= 0 /\ index < Len(contents)
    THEN [paths |-> paths, contents |-> [contents EXCEPT ![index + 1] = newContent]]
    ELSE [paths |-> paths, contents |-> contents]

-----------------------------------------------------------------------------
(* Diff text parsing (components/diffviewer/diffview.cpp)                  *)

\* QString::split('\n'), empty parts kept: one more part than line breaks.
RECURSIVE split(_)
split(content) ==
    LET nl == indexOf(content, "\n")
    IN  IF nl = -1 THEN <<content>>
        ELSE <<left(content, nl)>> \o split(mid(content, nl + 1))

Digits == {"0", "1", "2", "3", "4", "5", "6", "7", "8", "9"}

DigitValue(c) ==
    CASE c = "0" -> 0 [] c = "1" -> 1 [] c = "2" -> 2 [] c = "3" -> 3 [] c = "4" -> 4
      [] c = "5" -> 5 [] c = "6" -> 6 [] c = "7" -> 7 [] c = "8" -> 8 [] c = "9" -> 9

IsSpace(c) == c \in {" ", "\t"}

\* The position after the run of white space (\s*) that starts at i.
RECURSIVE SkipSpaces(_, _)
SkipSpaces(s, i) ==
    IF i <= Len(s) /\ IsSpace(s[i]) THEN SkipSpaces(s, i + 1) ELSE i

\* The position after the run of digits (\d+, greedy) that starts at i.
RECURSIVE SkipDigits(_, _)
SkipDigits(s, i) ==
    IF i <= Len(s) /\ s[i] \in Digits THEN SkipDigits(s, i + 1) ELSE i

\* QString::toInt of a run of digits: 0 when it does not fit an int.
RECURSIVE DigitsValue(_)
DigitsValue(ds) ==
    IF ds = <<>> THEN 0
    ELSE 10 * DigitsValue(SubSeq(ds, 1, Len(ds) - 1)) + DigitValue(ds[Len(ds)])

toInt(ds) == IF DigitsValue(ds) > 2147483647 THEN 0 ELSE DigitsValue(ds)

\* The position after an optional ",<digits>" ((?:,(\d+))?) at i.
SkipCount(s, i) ==
    IF i + 1 <= Len(s) /\ s[i] = "," /\ s[i + 1] \in Digits
    THEN SkipDigits(s, i + 1) ELSE i

\* hunkHeaderRegex.match(line) for
\*   ^@@\s*-(\d+)(?:,(\d+))?\s*\+(\d+)(?:,(\d+))?\s*@@.*
\* with captured(1) and captured(3) converted by toInt().
hunkHeaderMatch(line) ==
    LET noMatch == [hasMatch |-> FALSE, original |-> 0, modified |-> 0]
        p1 == SkipSpaces(line, 3)              \* after "@@" and \s*
        p2 == SkipDigits(line, p1 + 1)         \* after -(\d+)
        p3 == SkipSpaces(line, SkipCount(line, p2))
        p4 == SkipDigits(line, p3 + 1)         \* after \+(\d+)
        p5 == SkipSpaces(line, SkipCount(line, p4))
    IN  IF ~startsWith(line, <<"@", "@">>) THEN noMatch
        ELSE IF ~(p1 <= Len(line) /\ line[p1] = "-" /\ p2 > p1 + 1) THEN noMatch
        ELSE IF ~(p3 <= Len(line) /\ line[p3] = "+" /\ p4 > p3 + 1) THEN noMatch
        ELSE IF ~DelimAt(line, <<"@", "@">>, p5) THEN noMatch
        ELSE [hasMatch |-> TRUE,
              original |-> toInt(SubSeq(line, p1 + 1, p2 - 1)),
              modified |-> toInt(SubSeq(line, p3 + 1, p4 - 1))]

DiffLine(changeType, text, originalLineNumber, modifiedLineNumber) ==
    [changeType |-> changeType, text |-> text,
     originalLineNumber |-> originalLineNumber,
     modifiedLineNumber |-> modifiedLineNumber]

\* The for loop of parseDiffContent from lines[i] (0-based) on; st holds
\* originalLine, modifiedLine, isFullAddition and diffData.
RECURSIVE parseLoop(_, _, _)
parseLoop(lines, i, st) ==
    IF i >= Len(lines) THEN st
    ELSE LET line == lines[i + 1]
             match == hunkHeaderMatch(line)
         IN  IF match.hasMatch
             THEN parseLoop(lines, i + 1,
                            [st EXCEPT !.originalLine = match.original,
                                       !.modifiedLine = match.modified])
             ELSE IF startsWith(line, <<"-", "-", "-">>)
             THEN parseLoop(lines, i + 2, st)
             ELSE IF startsWith(line, <<"+">>)
             THEN parseLoop(lines, i + 1,
                            [st EXCEPT !.diffData = Append(@,
                                           DiffLine("Added", mid(line, 1), 0, st.modifiedLine)),
                                       !.modifiedLine = @ + 1])
             ELSE IF startsWith(line, <<"-">>)
             THEN parseLoop(lines, i + 1,
                            [st EXCEPT !.diffData = Append(@,
                                           DiffLine("Removed", mid(line, 1), st.originalLine, 0)),
                                       !.originalLine = @ + 1,
                                       !.isFullAddition = FALSE])
             ELSE parseLoop(lines, i + 1,
                            [st EXCEPT !.diffData = Append(@,
                                           DiffLine("Unchanged", line, st.originalLine,
                                                    st.modifiedLine)),
                                       !.originalLine = @ + 1,
                                       !.modifiedLine = @ + 1,
                                       !.isFullAddition = FALSE])

\* DiffView::parseDiffContent of the diff viewer.
parseDiffContent(content) ==
    LET st == parseLoop(split(content), 0,
                        [originalLine |-> 1, modifiedLine |-> 1,
                         isFullAddition |-> TRUE, diffData |-> <<>>])
    IN  IF Len(st.diffData) > 0 /\ st.isFullAddition
        THEN [k \in 1..Len(st.diffData) |-> DiffLine("Added", st.diffData[k].text, 0, 0)]
        ELSE st.diffData

-----------------------------------------------------------------------------
(* The naive diff-line parser (components/diffview.cpp)                    *)

\* A plausible slip: split with Qt::SkipEmptyParts.
RECURSIVE splitSkipEmptyParts(_)
splitSkipEmptyParts(text) ==
    LET nl == indexOf(text, "\n")
        head == IF nl = -1 THEN text ELSE left(text, nl)
        rest == IF nl = -1 THEN <<>> ELSE splitSkipEmptyParts(mid(text, nl + 1))
    IN  IF head = <<>> THEN rest ELSE <<head>> \o rest

\* QStringList lines = content.split('\n')
naiveLines(text) == split(text)

\* The body of the for loop: the record appended for one line.
naiveDiffLine(line) ==
    IF startsWith(line, <<"+">>) THEN [changeType |-> "Added", text |-> mid(line, 1)]
    ELSE IF startsWith(line, <<"-">>) THEN [changeType |-> "Removed", text |-> mid(line, 1)]
    ELSE [changeType |-> "Unchanged", text |-> line]

\* DiffView::parseDiffContent of components/diffview.cpp
naiveParseDiffContent(text) ==
    LET lines == naiveLines(text)
    IN  [k \in 1..Len(lines) |-> naiveDiffLine(lines[k])]

-----------------------------------------------------------------------------
(* DiffContentWidget and DiffView (components/diffviewer)                  *)

\* The for loop of DiffContentWidget::setDiffData from element i (1-based):
\* line numbers are assigned afresh by change type.
RECURSIVE renumber(_, _, _, _)
renumber(diffData, i, originalLine, modifiedLine) ==
    IF i > Len(diffData) THEN <<>>
    ELSE LET line == diffData[i]
         IN  CASE line.changeType = "Added" ->
                    <<DiffLine("Added", line.text, 0, modifiedLine)>>
                    \o renumber(diffData, i + 1, originalLine, modifiedLine + 1)
               [] line.changeType = "Removed" ->
                    <<DiffLine("Removed", line.text, originalLine, 0)>>
                    \o renumber(diffData, i + 1, originalLine + 1, modifiedLine)
               [] line.changeType = "Unchanged" ->
                    <<DiffLine("Unchanged", line.text, originalLine, modifiedLine)>>
                    \o renumber(diffData, i + 1, originalLine + 1, modifiedLine + 1)

\* DiffContentWidget::setDiffData(diffData, fileName) on the view v.
setDiffData(v, diffData, fileName) ==
    [v EXCEPT !.m_diffData = renumber(diffData, 1, 1, 1), !.m_fileName = fileName]

\* DiffView::onFileSelectionChanged(index); index is a row, -1 when invalid.
onFileSelectionChanged(v, paths, contents, index) ==
    LET w == [v EXCEPT !.m_currentIndex = index]
    IN  IF index = -1 \/ w.m_model = "null"
        THEN setDiffData(w, <<>>, <<>>)
        ELSE setDiffData(w, parseDiffContent(getFileContent(contents, index)),
                         getFilePath(paths, index))

\* DiffView::updateDiffContent
updateDiffContent(v, paths, contents) ==
    onFileSelectionChanged(v, paths, contents, v.currentIndex)

\* A plausible slip: modelWasReset leaves the selection alone.
modelWasResetKeepsSelection(v, paths, contents) ==
    updateDiffContent(v, paths, contents)

\* DiffView::modelWasReset
modelWasReset(v, paths, contents) ==
    IF v.m_model # "null" /\ DiffModel_rowCount(paths) > 0
    THEN onFileSelectionChanged([v EXCEPT !.currentIndex = DiffModel_index(paths, 0)],
                                paths, contents, DiffModel_index(paths, 0))
    ELSE setDiffData(v, <<>>, <<>>)

\* DiffView::onDataChanged(topLeft, bottomRight, roles)
onDataChanged(v, paths, contents, topLeft, roles) ==
    IF v.currentIndex = topLeft /\ "FileContentRole" \in roles
    THEN updateDiffContent(v, paths, contents)
    ELSE v

\* The slots run by the model's modelReset signal, in connection order: the
\* list view's own reset (its current index becomes invalid), then, when
\* the view is connected, updateDiffContent and modelWasReset.
onModelReset(v, paths, contents) ==
    LET r == IF v.listModel = "null" THEN v ELSE [v EXCEPT !.currentIndex = -1]
    IN  IF v.connected
        THEN modelWasReset(updateDiffContent(r, paths, contents), paths, contents)
        ELSE r

\* The list view after row index was removed from oldCount rows
\* (QItemSelectionModel): a current row below the removed one moves up; a
\* removed current row is replaced by the row above it, else by the row
\* below it (which becomes row 0), else by none.
onRowsRemoved(v, oldCount, index) ==
    IF v.listModel = "null" \/ v.currentIndex = -1 THEN v
    ELSE IF v.currentIndex > index THEN [v EXCEPT !.currentIndex = @ - 1]
    ELSE IF v.currentIndex < index THEN v
    ELSE IF index > 0 THEN [v EXCEPT !.currentIndex = index - 1]
    ELSE IF index + 1 < oldCount THEN [v EXCEPT !.currentIndex = 0]
    ELSE [v EXCEPT !.currentIndex = -1]

\* The slots run by the model's dataChanged signal.
onModelDataChanged(v, paths, contents, topLeft, roles) ==
    IF v.connected THEN onDataChanged(v, paths, contents, topLeft, roles) ELSE v

\* DiffView::setModel(model), model being the diff model or nullptr.
\* QAbstractItemView::setModel does nothing for the model it already has,
\* and otherwise starts with no current index.
DiffView_setModel(v, paths, contents, model) ==
    LET a == [v EXCEPT !.connected = FALSE,
                       !.m_model = model,
                       !.listModel = model,
                       !.currentIndex = IF v.listModel = model THEN @ ELSE -1]
    IN  IF model # "null"
        THEN LET c == [a EXCEPT !.connected = TRUE]
             IN  IF DiffModel_rowCount(paths) > 0
                 THEN onFileSelectionChanged(
                          [c EXCEPT !.currentIndex = DiffModel_index(paths, 0)],
                          paths, contents, DiffModel_index(paths, 0))
                 ELSE setDiffData(c, <<>>, <<>>)
        ELSE setDiffData(a, <<>>, <<>>)

\* The view built by DiffView::DiffView(parent, nullptr).
DiffView_constructed ==
    [m_model |-> "null", listModel |-> "null", connected |-> FALSE,
     currentIndex |-> -1, m_currentIndex |-> -1,
     m_diffData |-> <<>>, m_fileName |-> <<>>]

-----------------------------------------------------------------------------
(* JSON (QJsonValue, QJsonObject, QJsonDocument as the code uses them)     *)

\* The strings the protocol names.
Str_type == <<"t", "y", "p", "e">>
Str_text == <<"t", "e", "x", "t">>
Str_messageType == <<"m", "e", "s", "s", "a", "g", "e", "T", "y", "p", "e">>
Str_status == <<"s", "t", "a", "t", "u", "s">>
Str_files == <<"f", "i", "l", "e", "s">>
Str_path == <<"p", "a", "t", "h">>
Str_content == <<"c", "o", "n", "t", "e", "n", "t">>
Str_chatMessage == <<"c", "h", "a", "t", "M", "e", "s", "s", "a", "g", "e">>
Str_requestStatus == <<"r", "e", "q", "u", "e", "s", "t", "S", "t", "a", "t", "u", "s">>
Str_diffApplied == <<"d", "i", "f", "f", "A", "p", "p", "l", "i", "e", "d">>
Str_diffResult == <<"d", "i", "f", "f", "R", "e", "s", "u", "l", "t">>
Str_User == <<"U", "s", "e", "r">>
Str_LLM == <<"L", "L", "M">>

\* A QJsonValue: ty is its type; b, s, a and m hold a bool, a string, the
\* elements of an array and the members of an object.
JUndefined == [ty |-> "undefined", b |-> FALSE, s |-> <<>>, a |-> <<>>, m |-> <<>>]
JNull == [ty |-> "null", b |-> FALSE, s |-> <<>>, a |-> <<>>, m |-> <<>>]
JNumber == [ty |-> "number", b |-> FALSE, s |-> <<>>, a |-> <<>>, m |-> <<>>]
JBool(b) == [ty |-> "bool", b |-> b, s |-> <<>>, a |-> <<>>, m |-> <<>>]
JString(s) == [ty |-> "string", b |-> FALSE, s |-> s, a |-> <<>>, m |-> <<>>]
JArray(a) == [ty |-> "array", b |-> FALSE, s |-> <<>>, a |-> a, m |-> <<>>]
JObject(m) == [ty |-> "object", b |-> FALSE, s |-> <<>>, a |-> <<>>, m |-> m]

\* One "key": value member of an object.
Member(key, val) == [key |-> key, val |-> val]

\* QJsonObject::contains(key); an object is the sequence of its members.
contains(obj, key) == \E k \in 1..Len(obj) : obj[k].key = key

\* QJsonObject::operator[](key): the value of the (last) member named key,
\* Undefined when there is none.
valueOf(obj, key) ==
    IF contains(obj, key)
    THEN obj[CHOOSE k \in 1..Len(obj) :
                /\ obj[k].key = key
                /\ \A j \in (k + 1)..Len(obj) : obj[j].key # key].val
    ELSE JUndefined

isString(v) == v.ty = "string"
isBool(v) == v.ty = "bool"
isArray(v) == v.ty = "array"
isObject(v) == v.ty = "object"

-----------------------------------------------------------------------------
(* The slots CommunicationManager connects to its own signals, applied to  *)
(* the record g of everything the GUI holds.                               *)

emit(g, signal) == [g EXCEPT !.emitted = Append(@, signal)]

\* chatMessageReceived -> the lambda calling m_chatModel->addMessage
onChatMessageReceived(g, message, messageType) ==
    LET msgs == addMessage(g.m_messages, MessageTypeOf(messageType), message)
    IN  [emit(g, "rowsInserted") EXCEPT
            !.m_messages = msgs,
            !.history = onRowsInserted(g.rowsInsertedConns, g.chatModel, g.history, msgs)]

\* requestStatusChanged -> ChatModel::setRequestPending
onRequestStatusChanged(g, status) ==
    [g EXCEPT !.m_requestPending = setRequestPending(g.m_requestPending, status),
              !.emitted = @ \o setRequestPendingEmits(g.m_requestPending, status)]

\* diffResultReceived -> DiffModel::setFiles
onDiffResultReceived(g, filePaths, fileContents) ==
    LET m == setFiles(g.m_filePaths, g.m_fileContents, filePaths, fileContents)
    IN  [emit(g, "modelReset") EXCEPT
            !.m_filePaths = m.paths,
            !.m_fileContents = m.contents,
            !.diffView = onModelReset(g.diffView, m.paths, m.contents)]

\* diffApplied -> DiffModel::clearDiffModel
onDiffApplied(g) ==
    LET m == clearDiffModel(g.m_filePaths, g.m_fileContents)
    IN  [emit(g, "modelReset") EXCEPT
            !.m_filePaths = m.paths,
            !.m_fileContents = m.contents,
            !.diffView = onModelReset(g.diffView, m.paths, m.contents)]

-----------------------------------------------------------------------------
(* CommunicationManager::processReceivedJson                               *)

\* The for loop over filesArray from element i (1-based): acc gathers
\* filePaths and fileContents; ok turns FALSE at the first invalid element.
RECURSIVE collectFiles(_, _, _)
collectFiles(filesArray, i, acc) ==
    IF i > Len(filesArray) THEN acc
    ELSE LET fileVal == filesArray[i]
         IN  IF isObject(fileVal)
             THEN IF /\ contains(fileVal.m, Str_path)
                     /\ isString(valueOf(fileVal.m, Str_path))
                     /\ contains(fileVal.m, Str_content)
                     /\ isString(valueOf(fileVal.m, Str_content))
                  THEN collectFiles(filesArray, i + 1,
                           [acc EXCEPT
                               !.filePaths = Append(@, valueOf(fileVal.m, Str_path).s),
                               !.fileContents = Append(@, valueOf(fileVal.m, Str_content).s)])
                  ELSE [acc EXCEPT !.ok = FALSE]
             ELSE [acc EXCEPT !.ok = FALSE]

\* A plausible slip: the rows gathered before an invalid element are kept.
processDiffResultPartial(g, obj) ==
    IF contains(obj, Str_files) /\ isArray(valueOf(obj, Str_files))
    THEN LET got == collectFiles(valueOf(obj, Str_files).a, 1,
                                 [ok |-> TRUE, filePaths |-> <<>>, fileContents |-> <<>>])
         IN  IF got.ok
             THEN onDiffResultReceived(emit(g, "diffResultReceived"),
                                       got.filePaths, got.fileContents)
             ELSE onDiffResultReceived(emit(g, "errorReceived"),
                                       got.filePaths, got.fileContents)
    ELSE emit(g, "errorReceived")

\* The "diffResult" branch.
processDiffResult(g, obj) ==
    IF contains(obj, Str_files) /\ isArray(valueOf(obj, Str_files))
    THEN LET got == collectFiles(valueOf(obj, Str_files).a, 1,
                                 [ok |-> TRUE, filePaths |-> <<>>, fileContents |-> <<>>])
         IN  IF got.ok
             THEN onDiffResultReceived(emit(g, "diffResultReceived"),
                                       got.filePaths, got.fileContents)
             ELSE emit(g, "errorReceived")
    ELSE emit(g, "errorReceived")

\* A plausible slip: every chat message is stored as a User message.
processChatMessageAsUser(g, obj) ==
    IF /\ contains(obj, Str_messageType) /\ isString(valueOf(obj, Str_messageType))
       /\ contains(obj, Str_text) /\ isString(valueOf(obj, Str_text))
    THEN LET messageTypeStr == valueOf(obj, Str_messageType).s
         IN  IF messageTypeStr \in {Str_User, Str_LLM}
             THEN onChatMessageReceived(emit(g, "chatMessageReceived"),
                                        valueOf(obj, Str_text).s, MessageTypeInt("User"))
             ELSE emit(g, "errorReceived")
    ELSE emit(g, "errorReceived")

\* A plausible slip: every messageType other than "User" counts as "LLM".
processChatMessageElseLLM(g, obj) ==
    IF /\ contains(obj, Str_messageType) /\ isString(valueOf(obj, Str_messageType))
       /\ contains(obj, Str_text) /\ isString(valueOf(obj, Str_text))
    THEN LET messageTypeStr == valueOf(obj, Str_messageType).s
         IN  IF messageTypeStr = Str_User
             THEN onChatMessageReceived(emit(g, "chatMessageReceived"),
                                        valueOf(obj, Str_text).s, MessageTypeInt("User"))
             ELSE onChatMessageReceived(emit(g, "chatMessageReceived"),
                                        valueOf(obj, Str_text).s, MessageTypeInt("LLM"))
    ELSE emit(g, "errorReceived")

\* The "chatMessage" branch.
processChatMessage(g, obj) ==
    IF /\ contains(obj, Str_messageType) /\ isString(valueOf(obj, Str_messageType))
       /\ contains(obj, Str_text) /\ isString(valueOf(obj, Str_text))
    THEN LET messageTypeStr == valueOf(obj, Str_messageType).s
         IN  IF messageTypeStr = Str_User
             THEN onChatMessageReceived(emit(g, "chatMessageReceived"),
                                        valueOf(obj, Str_text).s, MessageTypeInt("User"))
             ELSE IF messageTypeStr = Str_LLM
             THEN onChatMessageReceived(emit(g, "chatMessageReceived"),
                                        valueOf(obj, Str_text).s, MessageTypeInt("LLM"))
             ELSE emit(g, "errorReceived")
    ELSE emit(g, "errorReceived")

\* A plausible slip: requestPendingChanged is emitted on every status.
processRequestStatusAlwaysEmits(g, obj) ==
    IF contains(obj, Str_status) /\ isBool(valueOf(obj, Str_status))
    THEN [emit(emit(g, "requestStatusChanged"), "requestPendingChanged")
             EXCEPT !.m_requestPending = valueOf(obj, Str_status).b]
    ELSE emit(g, "errorReceived")

\* The "requestStatus" branch.
processRequestStatus(g, obj) ==
    IF contains(obj, Str_status) /\ isBool(valueOf(obj, Str_status))
    THEN onRequestStatusChanged(emit(g, "requestStatusChanged"),
                                valueOf(obj, Str_status).b)
    ELSE emit(g, "errorReceived")

\* A plausible slip: the final else reports the unknown type.
processReceivedJsonReportsUnknown(g, obj) ==
    IF valueOf(obj, Str_type) = JString(Str_chatMessage) THEN processChatMessage(g, obj)
    ELSE IF valueOf(obj, Str_type) = JString(Str_requestStatus)
    THEN processRequestStatus(g, obj)
    ELSE IF valueOf(obj, Str_type) = JString(Str_diffApplied)
    THEN onDiffApplied(emit(g, "diffApplied"))
    ELSE IF valueOf(obj, Str_type) = JString(Str_diffResult) THEN processDiffResult(g, obj)
    ELSE emit(g, "errorReceived")

\* CommunicationManager::processReceivedJson(obj)
processReceivedJson(g, obj) ==
    IF valueOf(obj, Str_type) = JString(Str_chatMessage) THEN processChatMessage(g, obj)
    ELSE IF valueOf(obj, Str_type) = JString(Str_requestStatus)
    THEN processRequestStatus(g, obj)
    ELSE IF valueOf(obj, Str_type) = JString(Str_diffApplied)
    THEN onDiffApplied(emit(g, "diffApplied"))
    ELSE IF valueOf(obj, Str_type) = JString(Str_diffResult) THEN processDiffResult(g, obj)
    ELSE g

-----------------------------------------------------------------------------
(* Inputs of the chat model's operations.                                  *)

Texts == { <<>>, <<"a">>, <<"*", "*", "a", "*", "*">> }

-----------------------------------------------------------------------------
(* Operations on the chat model and the conversation view.                 *)

\* ChatModel::ChatModel
ChatConstructed == m_messages = <<>> /\ m_requestPending = FALSE

\* ConversationHistory::ConversationHistory
HistoryConstructed == chatModel = "null" /\ rowsInsertedConns = 0 /\ history = <<>>

\* DiffModel::DiffModel
DiffConstructed == m_filePaths = <<>> /\ m_fileContents = <<>>

\* DiffView::DiffView(parent, nullptr)
ViewConstructed == diffView = DiffView_constructed

\* CommunicationManager::CommunicationManager: the file is created or
\* truncated and watched, the buffer is empty.
CommConstructed ==
    /\ commFile = <<>>
    /\ m_buffer = <<>>
    /\ pendingChange = FALSE
    /\ extRest = <<>>
    /\ received = <<>>
    /\ phase = "constructed"
    /\ fileExists = TRUE
    /\ watched = TRUE
    /\ readyPending = TRUE
    /\ stderrText = <<>>

\* No parseDiffContent call is under way.
ParseIdle == diffText = <<>> /\ parsed = <<>>

InitChat ==
    /\ ChatConstructed
    /\ HistoryConstructed
    /\ DiffConstructed
    /\ ViewConstructed
    /\ ParseIdle
    /\ CommConstructed
    /\ emitted = <<>>
    /\ call = [op |-> "construct"]

\* ChatModel::addMessage, with the rowsInserted slots it runs.
AddMessage(type, text) ==
    /\ Len(m_messages) < MaxMessages
    /\ m_messages' = addMessage(m_messages, type, text)
    /\ history' = onRowsInserted(rowsInsertedConns, chatModel, history, m_messages')
    /\ emitted' = <<"rowsInserted">>
    /\ call' = [op |-> "addMessage", type |-> type, text |-> text]
    /\ UNCHANGED <<m_requestPending, chatModel, rowsInsertedConns, diffVars, viewVars, parseVars, commVars>>

\* ChatModel::setRequestPending
SetRequestPending(value) ==
    /\ m_requestPending' = setRequestPending(m_requestPending, value)
    /\ emitted' = setRequestPendingEmits(m_requestPending, value)
    /\ call' = [op |-> "setRequestPending", value |-> value]
    /\ UNCHANGED <<m_messages, histVars, diffVars, viewVars, parseVars, commVars>>

\* ConversationHistory::setModel(model), model being the chat model or nullptr.
History_setModel(model) ==
    /\ chatModel' = model
    /\ rowsInsertedConns' =
          LET afterDisconnect == IF chatModel # "null" THEN 0 ELSE rowsInsertedConns
          IN  IF model # "null" THEN afterDisconnect + 1 ELSE afterDisconnect
    /\ history' = updateHistory(model, history, m_messages)
    /\ emitted' = <<>>
    /\ call' = [op |-> "History_setModel", model |-> model]
    /\ UNCHANGED <<chatVars, diffVars, viewVars, parseVars, commVars>>

NextChat ==
    \/ \E type \in MessageType, text \in Texts : AddMessage(type, text)
    \/ \E value \in BOOLEAN : SetRequestPending(value)
    \/ \E model \in {"null", "model"} : History_setModel(model)

SpecChat == InitChat /\ [][NextChat]_vars

-----------------------------------------------------------------------------
(* Operations on the diff model and the diff viewer.                       *)

Paths == { <<"f">>, <<"g">> }

DiffContents ==
    { <<"+", "a">>,
      <<"@", "@", " ", "-", "2", " ", "+", "3", " ", "@", "@", "\n", "a", "\n", "+", "b">> }

SeqsUpTo(S, n) == UNION { [1..k -> S] : k \in 0..n }

InitDiff ==
    /\ ChatConstructed
    /\ HistoryConstructed
    /\ DiffConstructed
    /\ ViewConstructed
    /\ ParseIdle
    /\ CommConstructed
    /\ emitted = <<>>
    /\ call = [op |-> "construct"]

\* DiffModel::setFiles, with the modelReset slots it runs.
SetFiles(filePaths, fileContents) ==
    LET m == setFiles(m_filePaths, m_fileContents, filePaths, fileContents)
    IN  /\ m_filePaths' = m.paths
        /\ m_fileContents' = m.contents
        /\ diffView' = onModelReset(diffView, m.paths, m.contents)
        /\ emitted' = <<"modelReset">>
        /\ call' = [op |-> "setFiles", before |-> diffView.currentIndex]
        /\ UNCHANGED <<chatVars, histVars, parseVars, commVars>>

\* DiffModel::clearDiffModel, with the modelReset slots it runs.
ClearDiffModel ==
    LET m == clearDiffModel(m_filePaths, m_fileContents)
    IN  /\ m_filePaths' = m.paths
        /\ m_fileContents' = m.contents
        /\ diffView' = onModelReset(diffView, m.paths, m.contents)
        /\ emitted' = <<"modelReset">>
        /\ call' = [op |-> "clearDiffModel", before |-> diffView.currentIndex]
        /\ UNCHANGED <<chatVars, histVars, parseVars, commVars>>

\* DiffModel::addFile; the diff viewer has no slot on rowsInserted.
AddFile(filePath, fileContent) ==
    LET m == addFile(m_filePaths, m_fileContents, filePath, fileContent)
    IN  /\ Len(m_filePaths) < MaxFiles
        /\ Len(m_fileContents) < MaxFiles
        /\ m_filePaths' = m.paths
        /\ m_fileContents' = m.contents
        /\ emitted' = <<"rowsInserted">>
        /\ call' = [op |-> "addFile"]
        /\ UNCHANGED <<chatVars, histVars, viewVars, parseVars, commVars>>

\* DiffModel::removeFile, with the list view's handling of rowsRemoved.
RemoveFile(index) ==
    LET m == removeFile(m_filePaths, m_fileContents, index)
        inRange == index >= 0 /\ index < DiffModel_rowCount(m_filePaths)
    IN  /\ m_filePaths' = m.paths
        /\ m_fileContents' = m.contents
        /\ diffView' = IF inRange
                       THEN onRowsRemoved(diffView, DiffModel_rowCount(m_filePaths), index)
                       ELSE diffView
        /\ emitted' = IF inRange THEN <<"rowsRemoved">> ELSE <<>>
        /\ call' = [op |-> "removeFile", index |-> index]
        /\ UNCHANGED <<chatVars, histVars, parseVars, commVars>>

\* DiffModel::changeFileContent, with the dataChanged slots it runs.
ChangeFileContent(index, newContent) ==
    LET m == changeFileContent(m_filePaths, m_fileContents, index, newContent)
        inRange == index >= 0 /\ index < Len(m_fileContents)
    IN  /\ m_filePaths' = m.paths
        /\ m_fileContents' = m.contents
        /\ diffView' = IF inRange
                       THEN onModelDataChanged(diffView, m.paths, m.contents,
                                               DiffModel_index(m.paths, index),
                                               {"FileContentRole"})
                       ELSE diffView
        /\ emitted' = IF inRange THEN <<"dataChanged">> ELSE <<>>
        /\ call' = [op |-> "changeFileContent", index |-> index]
        /\ UNCHANGED <<chatVars, histVars, parseVars, commVars>>

\* DiffView::setModel(model)
View_setModel(model) ==
    /\ diffView' = DiffView_setModel(diffView, m_filePaths, m_fileContents, model)
    /\ emitted' = <<>>
    /\ call' = [op |-> "DiffView_setModel", model |-> model]
    /\ UNCHANGED <<chatVars, histVars, diffVars, parseVars, commVars>>

\* A click on a row of the file list: the list view makes it the current
\* index and emits clicked(index), connected to onFileSelectionChanged.
ClickFile(row) ==
    /\ diffView.listModel # "null"
    /\ row < DiffModel_rowCount(m_filePaths)
    /\ diffView' = onFileSelectionChanged([diffView EXCEPT !.currentIndex = row],
                                          m_filePaths, m_fileContents, row)
    /\ emitted' = <<"clicked">>
    /\ call' = [op |-> "click", row |-> row]
    /\ UNCHANGED <<chatVars, histVars, diffVars, parseVars, commVars>>

\* DiffModel::getFileContent(index) is called; the model is not changed.
GetFileContent(index) ==
    /\ emitted' = <<>>
    /\ call' = [op |-> "getFileContent", index |-> index,
                result |-> getFileContent(m_fileContents, index)]
    /\ UNCHANGED <<chatVars, histVars, diffVars, viewVars, parseVars, commVars>>

\* DiffModel::getFilePath(index) is called; the model is not changed.
GetFilePath(index) ==
    /\ emitted' = <<>>
    /\ call' = [op |-> "getFilePath", index |-> index,
                result |-> getFilePath(m_filePaths, index)]
    /\ UNCHANGED <<chatVars, histVars, diffVars, viewVars, parseVars, commVars>>

NextDiff ==
    \/ \E filePaths \in SeqsUpTo(Paths, MaxFiles),
          fileContents \in SeqsUpTo(DiffContents, MaxFiles) :
          SetFiles(filePaths, fileContents)
    \/ ClearDiffModel
    \/ \E filePath \in Paths, fileContent \in DiffContents : AddFile(filePath, fileContent)
    \/ \E index \in -1..MaxFiles : RemoveFile(index)
    \/ \E index \in -1..MaxFiles, newContent \in DiffContents :
          ChangeFileContent(index, newContent)
    \/ \E index \in -1..MaxFiles : GetFileContent(index)
    \/ \E index \in -1..MaxFiles : GetFilePath(index)

SpecDiff == InitDiff /\ [][NextDiff]_vars

NextView ==
    \/ \E filePaths \in SeqsUpTo(Paths, MaxRows),
          fileContents \in SeqsUpTo(DiffContents, MaxRows) :
          SetFiles(filePaths, fileContents)
    \/ ClearDiffModel
    \/ \E index \in -1..MaxRows, newContent \in DiffContents :
          ChangeFileContent(index, newContent)
    \/ \E model \in {"null", "model"} : View_setModel(model)
    \/ \E row \in 0..(MaxRows - 1) : ClickFile(row)

SpecView == InitDiff /\ [][NextView]_vars

\* The model's dataChanged signal reaches DiffView::onDataChanged with an
\* index of the model and the roles given; the model is not changed.
DataChanged(topLeft, roles) ==
    /\ topLeft < DiffModel_rowCount(m_filePaths)
    /\ diffView' = onModelDataChanged(diffView, m_filePaths, m_fileContents,
                                      DiffModel_index(m_filePaths, topLeft), roles)
    /\ emitted' = <<"dataChanged">>
    /\ call' = [op |-> "dataChanged", index |-> topLeft, roles |-> roles]
    /\ UNCHANGED <<chatVars, histVars, diffVars, parseVars, commVars>>

DiffRoles == {"FilePathRole", "FileContentRole"}

\* The diff model and the diff viewer together: every operation of the
\* model, the viewer's setModel, clicks, and dataChanged notifications.
NextRefresh ==
    \/ \E filePaths \in SeqsUpTo(Paths, MaxRows),
          fileContents \in SeqsUpTo(DiffContents, MaxRows) :
          SetFiles(filePaths, fileContents)
    \/ ClearDiffModel
    \/ \E index \in 0..(MaxRows - 1) : RemoveFile(index)
    \/ \E index \in -1..MaxRows, newContent \in DiffContents :
          ChangeFileContent(index, newContent)
    \/ \E model \in {"null", "model"} : View_setModel(model)
    \/ \E row \in 0..(MaxRows - 1) : ClickFile(row)
    \/ \E topLeft \in 0..(MaxRows - 1), roles \in SUBSET DiffRoles :
          DataChanged(topLeft, roles)

SpecRefresh == InitDiff /\ [][NextRefresh]_vars

-----------------------------------------------------------------------------
(* Calls of the naive parser on every short diff text.                     *)

DiffChars == {"+", "-", "a", "\n"}

InitParse ==
    /\ ChatConstructed
    /\ HistoryConstructed
    /\ DiffConstructed
    /\ ViewConstructed
    /\ CommConstructed
    /\ diffText \in SeqsUpTo(DiffChars, MaxContentLen)
    /\ parsed = <<>>
    /\ emitted = <<>>
    /\ call = [op |-> "construct"]

\* components/diffview.cpp DiffView::parseDiffContent(content) returns.
NaiveParse ==
    /\ call.op = "construct"
    /\ parsed' = naiveParseDiffContent(diffText)
    /\ emitted' = <<>>
    /\ call' = [op |-> "naiveParseDiffContent"]
    /\ UNCHANGED <<chatVars, histVars, diffVars, viewVars, diffText, commVars>>

NextParse == NaiveParse

SpecParse == InitParse /\ [][NextParse]_vars

-----------------------------------------------------------------------------
(* Calls of the diff viewer's parser on texts made of a few kinds of line. *)

Line_header == <<"@", "@", " ", "-", "2", " ", "+", "3", " ", "@", "@">>
Line_headerCounts ==
    <<"@", "@", "-", "5", ",", "2", " ", "+", "7", ",", "3", "@", "@", " ", "f">>
Line_noHeader == <<"@", "@", " ", "x">>
Line_added == <<"+", "a">>
Line_removed == <<"-", "a">>
Line_unchanged == <<" ", "a">>
Line_oldFile == <<"-", "-", "-", " ", "x">>
Line_newFile == <<"+", "+", "+", " ", "y">>

HunkLines ==
    { Line_header, Line_headerCounts, Line_noHeader, Line_added, Line_removed,
      Line_unchanged, Line_oldFile, Line_newFile }

\* The lines joined by '\n' into one text.
RECURSIVE JoinLines(_)
JoinLines(lines) ==
    IF lines = <<>> THEN <<>>
    ELSE IF Len(lines) = 1 THEN lines[1]
    ELSE lines[1] \o <<"\n">> \o JoinLines(Tail(lines))

InitHunk ==
    /\ ChatConstructed
    /\ HistoryConstructed
    /\ DiffConstructed
    /\ ViewConstructed
    /\ CommConstructed
    /\ diffText \in { JoinLines(lines) : lines \in SeqsUpTo(HunkLines, MaxHunkLines) }
    /\ parsed = <<>>
    /\ emitted = <<>>
    /\ call = [op |-> "construct"]

\* components/diffviewer/diffview.cpp DiffView::parseDiffContent(content)
\* returns.
ParseDiff ==
    /\ call.op = "construct"
    /\ parsed' = parseDiffContent(diffText)
    /\ emitted' = <<>>
    /\ call' = [op |-> "parseDiffContent"]
    /\ UNCHANGED <<chatVars, histVars, diffVars, viewVars, diffText, commVars>>

NextHunk == ParseDiff

SpecHunk == InitHunk /\ [][NextHunk]_vars

-----------------------------------------------------------------------------
(* Objects handed to processReceivedJson.                                  *)

Str_hi == <<"h", "i">>
Str_Bot == <<"B", "o", "t">>
Str_ping == <<"p", "i", "n", "g">>

ChatMessageObj(messageType, text) ==
    <<Member(Str_type, JString(Str_chatMessage)),
      Member(Str_messageType, messageType),
      Member(Str_text, text)>>

FileObj(path, fileContent) ==
    JObject(<<Member(Str_path, path), Member(Str_content, fileContent)>>)

DiffResultObj(files) ==
    <<Member(Str_type, JString(Str_diffResult)), Member(Str_files, files)>>

File_f == FileObj(JString(<<"f">>), JString(<<"+", "a">>))
File_g == FileObj(JString(<<"g">>), JString(<<"-", "a", "\n", "b">>))

ChatMessageObjects ==
    { ChatMessageObj(JString(Str_User), JString(Str_hi)),
      ChatMessageObj(JString(Str_LLM), JString(Str_hi)),
      ChatMessageObj(JString(Str_LLM), JString(<<>>)),
      ChatMessageObj(JString(Str_Bot), JString(Str_hi)),
      ChatMessageObj(JString(Str_User), JNumber),
      ChatMessageObj(JBool(TRUE), JString(Str_hi)),
      <<Member(Str_type, JString(Str_chatMessage)), Member(Str_text, JString(Str_hi))>>,
      <<Member(Str_type, JString(Str_chatMessage)),
        Member(Str_messageType, JString(Str_User))>> }

RequestStatusObjects ==
    { <<Member(Str_type, JString(Str_requestStatus)), Member(Str_status, JBool(TRUE))>>,
      <<Member(Str_type, JString(Str_requestStatus)), Member(Str_status, JBool(FALSE))>>,
      <<Member(Str_type, JString(Str_requestStatus)),
        Member(Str_status, JString(<<"t", "r", "u", "e">>))>>,
      <<Member(Str_type, JString(Str_requestStatus))>> }

DiffAppliedObjects ==
    { <<Member(Str_type, JString(Str_diffApplied))>>,
      <<Member(Str_type, JString(Str_diffApplied)), Member(Str_files, JArray(<<File_f>>))>> }

DiffResultObjects ==
    { DiffResultObj(JArray(<<File_f, File_g>>)),
      DiffResultObj(JArray(<<File_g>>)),
      DiffResultObj(JArray(<<>>)),
      DiffResultObj(JArray(<<File_f, JNumber>>)),
      DiffResultObj(JArray(<<File_g, JObject(<<Member(Str_path, JString(<<"f">>))>>)>>)),
      DiffResultObj(JArray(<<FileObj(JNumber, JString(<<"+", "a">>))>>)),
      DiffResultObj(JString(<<"f">>)),
      <<Member(Str_type, JString(Str_diffResult))>> }

OtherObjects ==
    { <<>>,
      <<Member(Str_type, JString(Str_ping)), Member(Str_text, JString(Str_hi))>>,
      <<Member(Str_type, JNumber), Member(Str_status, JBool(TRUE))>> }

ReceivedObjects ==
    ChatMessageObjects \cup RequestStatusObjects \cup DiffAppliedObjects
        \cup DiffResultObjects \cup OtherObjects

-----------------------------------------------------------------------------
(* processReceivedJson on the constructed GUI.                             *)

\* Everything processReceivedJson and its slots read and write.
Gui ==
    [m_messages |-> m_messages, m_requestPending |-> m_requestPending,
     m_filePaths |-> m_filePaths, m_fileContents |-> m_fileContents,
     chatModel |-> chatModel, rowsInsertedConns |-> rowsInsertedConns,
     history |-> history, diffView |-> diffView, emitted |-> <<>>]

GuiBecomes(g) ==
    /\ m_messages' = g.m_messages
    /\ m_requestPending' = g.m_requestPending
    /\ m_filePaths' = g.m_filePaths
    /\ m_fileContents' = g.m_fileContents
    /\ history' = g.history
    /\ diffView' = g.diffView
    /\ emitted' = g.emitted
    /\ UNCHANGED <<chatModel, rowsInsertedConns>>

InitJson ==
    /\ ChatConstructed
    /\ HistoryConstructed
    /\ DiffConstructed
    /\ ViewConstructed
    /\ ParseIdle
    /\ CommConstructed
    /\ emitted = <<>>
    /\ call = [op |-> "construct"]

\* CommunicationManager::processReceivedJson(obj), with the slots it runs.
ProcessReceivedJson(obj) ==
    LET g == processReceivedJson(Gui, obj)
    IN  /\ Len(g.m_messages) <= MaxMessages
        /\ GuiBecomes(g)
        /\ call' = [op |-> "processReceivedJson", obj |-> obj,
                    rowsBefore |-> DiffModel_rowCount(m_filePaths)]
        /\ UNCHANGED <<parseVars, commVars>>

NextJson == \E obj \in ReceivedObjects : ProcessReceivedJson(obj)

SpecJson == InitJson /\ [][NextJson]_vars

-----------------------------------------------------------------------------
(* The text of the communication file.  The text is a sequence of units:   *)
(* the newline, the punctuation of a JSON document, and "key":value pairs.  *)

Unit(u, key, val) == [u |-> u, key |-> key, val |-> val]
NL == Unit("nl", <<>>, JUndefined)
LBrace == Unit("{", <<>>, JUndefined)
RBrace == Unit("}", <<>>, JUndefined)
LBracket == Unit("[", <<>>, JUndefined)
RBracket == Unit("]", <<>>, JUndefined)
Comma == Unit(",", <<>>, JUndefined)
Pair(key, val) == Unit("pair", key, val)

\* QJsonDocument(obj).toJson(QJsonDocument::Compact)
RECURSIVE membersToJson(_, _)
membersToJson(obj, i) ==
    IF i > Len(obj) THEN <<>>
    ELSE (IF i > 1 THEN <<Comma>> ELSE <<>>)
             \o <<Pair(obj[i].key, obj[i].val)>> \o membersToJson(obj, i + 1)

\* The protocol's keys in the order QJsonObject keeps its members: sorted
\* by key.
KeyOrder ==
    <<Str_content, Str_files, Str_messageType, Str_path, Str_status, Str_text, Str_type>>

\* The members of a QJsonObject built from the given (key, value) list:
\* one member for each key, the last value given for it, sorted by key.
RECURSIVE sortedFrom(_, _)
sortedFrom(members, k) ==
    IF k > Len(KeyOrder) THEN <<>>
    ELSE (IF contains(members, KeyOrder[k])
          THEN <<Member(KeyOrder[k], valueOf(members, KeyOrder[k]))>>
          ELSE <<>>) \o sortedFrom(members, k + 1)

QJsonObjectOf(members) == sortedFrom(members, 1)

toJson(obj) == <<LBrace>> \o membersToJson(QJsonObjectOf(obj), 1) \o <<RBrace>>

\* The results of QJsonDocument::fromJson: error is set on a parse error,
\* isObject tells an object document from an array document.
ParseError == [error |-> TRUE, isObject |-> FALSE, obj |-> <<>>]
ArrayDocument == [error |-> FALSE, isObject |-> FALSE, obj |-> <<>>]
ObjectDocument(obj) == [error |-> FALSE, isObject |-> TRUE, obj |-> obj]

\* The members of an object from unit i on, up to the closing brace that
\* must end the line.
RECURSIVE parseMembers(_, _, _)
parseMembers(line, i, acc) ==
    IF i + 1 > Len(line) THEN ParseError
    ELSE IF line[i].u # "pair" THEN ParseError
    ELSE LET members == Append(acc, Member(line[i].key, line[i].val))
         IN  IF line[i + 1] = RBrace
             THEN IF i + 1 = Len(line) THEN ObjectDocument(members) ELSE ParseError
             ELSE IF line[i + 1] = Comma THEN parseMembers(line, i + 2, members)
             ELSE ParseError

\* QJsonDocument::fromJson(completeLine.toUtf8(), &error)
fromJson(line) ==
    IF line = <<LBrace, RBrace>> THEN ObjectDocument(<<>>)
    ELSE IF Len(line) >= 1 /\ line[1] = LBrace THEN parseMembers(line, 2, <<>>)
    ELSE IF line = <<LBracket, RBracket>> THEN ArrayDocument
    ELSE ParseError

-----------------------------------------------------------------------------
(* CommunicationManager::onFileChanged                                     *)

\* A plausible slip: an if in place of the inner while, so that one call
\* takes one complete line only.
takeLinesOnlyFirst(buffer) ==
    LET newlineIndex == indexOf(buffer, NL)
    IN  IF newlineIndex = -1 THEN [lines |-> <<>>, buffer |-> buffer]
        ELSE [lines |-> <<left(buffer, newlineIndex)>>,
              buffer |-> mid(buffer, newlineIndex + 1)]

\* The inner while loop on the buffer: every complete line is taken off
\* the front of the buffer, in order; what follows the last newline stays.
RECURSIVE takeLines(_)
takeLines(buffer) ==
    LET newlineIndex == indexOf(buffer, NL)
    IN  IF newlineIndex = -1 THEN [lines |-> <<>>, buffer |-> buffer]
        ELSE LET completeLine == left(buffer, newlineIndex)
                 rest == takeLines(mid(buffer, newlineIndex + 1))
             IN  [lines |-> <<completeLine>> \o rest.lines, buffer |-> rest.buffer]

\* A plausible slip: a line that is not a JSON object ends the loop (a
\* return or break in place of continue).
RECURSIVE dispatchLinesStopsAtError(_, _, _)
dispatchLinesStopsAtError(d, lines, i) ==
    IF i > Len(lines) THEN d
    ELSE LET doc == fromJson(lines[i])
         IN  IF doc.error \/ ~doc.isObject THEN [d EXCEPT !.g = emit(@, "errorReceived")]
             ELSE dispatchLinesStopsAtError(
                      [g |-> processReceivedJson(d.g, doc.obj),
                       received |-> Append(d.received, doc.obj)],
                      lines, i + 1)

\* The body of the inner loop for the lines from i on: a line that does
\* not parse or is not an object emits errorReceived, an object goes to
\* processReceivedJson.  d.g is the GUI, d.received the objects passed on.
RECURSIVE dispatchLines(_, _, _)
dispatchLines(d, lines, i) ==
    IF i > Len(lines) THEN d
    ELSE LET doc == fromJson(lines[i])
         IN  IF doc.error THEN dispatchLines([d EXCEPT !.g = emit(@, "errorReceived")],
                                             lines, i + 1)
             ELSE IF doc.isObject
             THEN dispatchLines([g |-> processReceivedJson(d.g, doc.obj),
                                 received |-> Append(d.received, doc.obj)],
                                lines, i + 1)
             ELSE dispatchLines([d EXCEPT !.g = emit(@, "errorReceived")], lines, i + 1)

\* onFileChanged: the file is opened and read from its start to its end,
\* the data read is appended to m_buffer, and the complete lines of the
\* buffer are dispatched.  An empty file is at its end at once.
onFileChanged(g, buffer, fileText) ==
    IF fileText = <<>> THEN [g |-> g, received |-> <<>>, lines |-> <<>>, buffer |-> buffer]
    ELSE LET newData == fileText
             taken == takeLines(buffer \o newData)
             d == dispatchLines([g |-> g, received |-> <<>>], taken.lines, 1)
         IN  [g |-> d.g, received |-> d.received, lines |-> taken.lines,
              buffer |-> taken.buffer]

-----------------------------------------------------------------------------
(* CommunicationManager::sendJson, sendChatMessage and applyDiff           *)

Str_applyDiff == <<"a", "p", "p", "l", "y", "D", "i", "f", "f">>

\* A plausible slip: the file is opened without QIODevice::Append.
sendJsonTruncates(fileText, obj, canOpen) ==
    IF ~canOpen THEN fileText
    ELSE toJson(obj) \o <<NL>>

\* sendJson(obj) on a file holding fileText: the new text of the file.
\* canOpen tells whether commFile.open succeeds.
sendJson(fileText, obj, canOpen) ==
    IF ~canOpen THEN fileText
    ELSE fileText \o toJson(obj) \o <<NL>>

sendChatMessage(fileText, message, canOpen) ==
    sendJson(fileText,
             <<Member(Str_type, JString(Str_chatMessage)),
               Member(Str_text, JString(message))>>,
             canOpen)

applyDiff(fileText, canOpen) ==
    sendJson(fileText, <<Member(Str_type, JString(Str_applyDiff))>>, canOpen)

-----------------------------------------------------------------------------
(* The external process appends lines to the communication file and the    *)
(* file watcher notifies the GUI.                                           *)

Obj_requestStatus ==
    <<Member(Str_type, JString(Str_requestStatus)), Member(Str_status, JBool(TRUE))>>

\* The lines the external process writes: two messages, an array document
\* and a line that is not JSON.
WireLines ==
    { toJson(Obj_requestStatus),
      toJson(ChatMessageObj(JString(Str_User), JString(Str_hi))),
      <<LBracket, RBracket>>,
      <<LBrace, Pair(Str_type, JString(Str_diffApplied))>> }

\* How many units of a line and its newline the first write carries: any
\* number from one unit to the whole of it.
FirstWrites(line) == 1..(Len(line) + 1)

LinesWritten ==
    Cardinality({i \in 1..Len(commFile) : commFile[i] = NL})
        + (IF extRest # <<>> THEN 1 ELSE 0)

InitComm ==
    /\ ChatConstructed
    /\ HistoryConstructed
    /\ DiffConstructed
    /\ ViewConstructed
    /\ ParseIdle
    /\ CommConstructed
    /\ emitted = <<>>
    /\ call = [op |-> "construct"]

\* The external process appends the first n units of a line and its
\* newline, creating the file when it is not there; the watcher sees the
\* change of a file it has the path of.
ExtWrite(line, n) ==
    /\ extRest = <<>>
    /\ LinesWritten < MaxLines
    /\ commFile' = commFile \o left(line \o <<NL>>, n)
    /\ extRest' = mid(line \o <<NL>>, n)
    /\ fileExists' = TRUE
    /\ pendingChange' = (pendingChange \/ watched)
    /\ emitted' = <<>>
    /\ call' = [op |-> "write", buffer |-> <<>>, newData |-> <<>>, lines |-> <<>>]
    /\ UNCHANGED <<chatVars, histVars, diffVars, viewVars, parseVars, m_buffer, received,
                   startVars, watched>>

\* The external process appends the rest of its line.
ExtWriteRest ==
    /\ extRest # <<>>
    /\ commFile' = commFile \o extRest
    /\ extRest' = <<>>
    /\ fileExists' = TRUE
    /\ pendingChange' = (pendingChange \/ watched)
    /\ emitted' = <<>>
    /\ call' = [op |-> "write", buffer |-> <<>>, newData |-> <<>>, lines |-> <<>>]
    /\ UNCHANGED <<chatVars, histVars, diffVars, viewVars, parseVars, m_buffer, received,
                   startVars, watched>>

\* The event loop delivers fileChanged to CommunicationManager::onFileChanged.
\* The path is always m_commFilePath, the one path the watcher is given.
\* When the file cannot be opened the slot returns at once; otherwise it
\* reads the file, dispatches the lines and adds the path to the watcher.
OnFileChanged ==
    /\ pendingChange
    /\ pendingChange' = FALSE
    /\ IF ~fileExists
       THEN /\ emitted' = <<>>
            /\ call' = [op |-> "onFileChanged", buffer |-> m_buffer,
                        newData |-> <<>>, lines |-> <<>>]
            /\ UNCHANGED <<chatVars, histVars, diffVars, viewVars, m_buffer, received,
                           watched>>
       ELSE LET r == onFileChanged(Gui, m_buffer, commFile)
            IN  /\ GuiBecomes(r.g)
                /\ m_buffer' = r.buffer
                /\ received' = received \o r.received
                /\ watched' = TRUE
                /\ call' = [op |-> "onFileChanged", buffer |-> m_buffer,
                            newData |-> commFile, lines |-> r.lines]
    /\ UNCHANGED <<parseVars, commFile, extRest, fileExists, startVars>>

\* The texts the user sends; a line break inside a text is part of the
\* JSON string and is not a line break of the file.
SendTexts == { Str_hi, <<"a", "\n">> }

\* CommunicationManager::sendChatMessage(message); the watcher sees the
\* file change when something was written.
SendChatMessage(message, canOpen) ==
    /\ LinesWritten < MaxLines
    /\ commFile' = sendChatMessage(commFile, message, canOpen)
    /\ fileExists' = (fileExists \/ canOpen)
    /\ pendingChange' = (pendingChange \/ (canOpen /\ watched))
    /\ emitted' = <<>>
    /\ call' = [op |-> "sendChatMessage", message |-> message, opened |-> canOpen]
    /\ UNCHANGED <<chatVars, histVars, diffVars, viewVars, parseVars,
                   m_buffer, extRest, received, startVars, watched>>

\* CommunicationManager::applyDiff()
ApplyDiff(canOpen) ==
    /\ LinesWritten < MaxLines
    /\ commFile' = applyDiff(commFile, canOpen)
    /\ fileExists' = (fileExists \/ canOpen)
    /\ pendingChange' = (pendingChange \/ (canOpen /\ watched))
    /\ emitted' = <<>>
    /\ call' = [op |-> "applyDiff", opened |-> canOpen]
    /\ UNCHANGED <<chatVars, histVars, diffVars, viewVars, parseVars,
                   m_buffer, extRest, received, startVars, watched>>

NextComm ==
    \/ \E line \in WireLines : \E n \in FirstWrites(line) : ExtWrite(line, n)
    \/ ExtWriteRest
    \/ OnFileChanged

SpecComm == InitComm /\ [][NextComm]_vars

\* The GUI sends messages while the external process writes whole lines
\* and the watcher notifies.
NextSend ==
    \/ \E message \in SendTexts : \E canOpen \in BOOLEAN : SendChatMessage(message, canOpen)
    \/ \E canOpen \in BOOLEAN : ApplyDiff(canOpen)
    \/ \E line \in WireLines : ExtWrite(line, Len(line) + 1)
    \/ OnFileChanged

SpecSend == InitComm /\ [][NextSend]_vars

-----------------------------------------------------------------------------
(* Start-up of the CommunicationManager and the life of the watched file.  *)

Str_READY == <<"R", "E", "A", "D", "Y", "\n">>

\* A plausible slip: no return after the failed open, so the timer that
\* emits ready() is started all the same.
constructorWithoutReturn(fileText, exists, canCreate) ==
    IF canCreate
    THEN [phase |-> "constructed", commFile |-> <<>>, fileExists |-> TRUE,
          watched |-> TRUE, readyPending |-> TRUE]
    ELSE [phase |-> "failed", commFile |-> fileText, fileExists |-> exists,
          watched |-> FALSE, readyPending |-> TRUE]

\* CommunicationManager::CommunicationManager from "Create or truncate the
\* file" on: canCreate tells whether commFile.open(WriteOnly | Truncate)
\* succeeds.  On failure the constructor returns before addPath and
\* before the single-shot timer.
constructor(fileText, exists, canCreate) ==
    IF canCreate
    THEN [phase |-> "constructed", commFile |-> <<>>, fileExists |-> TRUE,
          watched |-> TRUE, readyPending |-> TRUE]
    ELSE [phase |-> "failed", commFile |-> fileText, fileExists |-> exists,
          watched |-> FALSE, readyPending |-> FALSE]

\* CommunicationManager::sendReadySignal: what stderr holds afterwards.
sendReadySignal(err) == err \o Str_READY

\* Before the constructor runs the file may be there from an earlier run.
InitWatch ==
    /\ ChatConstructed
    /\ HistoryConstructed
    /\ DiffConstructed
    /\ ViewConstructed
    /\ ParseIdle
    /\ phase = "new"
    /\ fileExists \in BOOLEAN
    /\ commFile \in (IF fileExists THEN {<<>>, toJson(Obj_requestStatus) \o <<NL>>}
                                   ELSE {<<>>})
    /\ m_buffer = <<>>
    /\ pendingChange = FALSE
    /\ extRest = <<>>
    /\ received = <<>>
    /\ watched = FALSE
    /\ readyPending = FALSE
    /\ stderrText = <<>>
    /\ emitted = <<>>
    /\ call = [op |-> "start"]

\* The constructor runs.
Construct(canCreate) ==
    /\ phase = "new"
    /\ LET c == constructor(commFile, fileExists, canCreate)
       IN  /\ phase' = c.phase
           /\ commFile' = c.commFile
           /\ fileExists' = c.fileExists
           /\ watched' = c.watched
           /\ readyPending' = c.readyPending
    /\ emitted' = <<>>
    /\ call' = [op |-> "construct"]
    /\ UNCHANGED <<chatVars, histVars, diffVars, viewVars, parseVars,
                   m_buffer, pendingChange, extRest, received, stderrText>>

\* The event loop runs the single-shot timer: ready() is emitted and the
\* connected sendReadySignal writes to stderr.
ReadyTimeout ==
    /\ readyPending
    /\ readyPending' = FALSE
    /\ emitted' = <<"ready">>
    /\ stderrText' = sendReadySignal(stderrText)
    /\ call' = [op |-> "sendReadySignal"]
    /\ UNCHANGED <<chatVars, histVars, diffVars, viewVars, parseVars, commFile, m_buffer,
                   pendingChange, extRest, received, phase, watchVars>>

\* The file is removed from disk (the external process replaces it, or
\* someone cleans up): a watcher that has the path signals fileChanged
\* and stops watching the path.
ExtRemoveFile ==
    /\ fileExists
    /\ Len(received) < MaxLines
    /\ fileExists' = FALSE
    /\ commFile' = <<>>
    /\ extRest' = <<>>
    /\ pendingChange' = (pendingChange \/ watched)
    /\ watched' = FALSE
    /\ emitted' = <<>>
    /\ call' = [op |-> "remove"]
    /\ UNCHANGED <<chatVars, histVars, diffVars, viewVars, parseVars, m_buffer,
                   received, startVars>>

NextWatch ==
    \/ \E canCreate \in BOOLEAN : Construct(canCreate)
    \/ ReadyTimeout
    \/ \E line \in WireLines : ExtWrite(line, Len(line) + 1)
    \/ ExtRemoveFile
    \/ OnFileChanged

SpecWatch == InitWatch /\ [][NextWatch]_vars

\* The event loop does run the timer.
SpecWatchFair == SpecWatch /\ WF_vars(ReadyTimeout)

-----------------------------------------------------------------------------
(* C1: ChatModel is an append-only ordered list.  Every addMessage(type,   *)
(* text) raises rowCount by exactly 1, the new last row reads back through *)
(* data() as (type, text), and every earlier row reads back as before; no  *)
(* other operation changes any row.                                        *)
ChatModelAppendOnly ==
    [][ LET n == ChatModel_rowCount(m_messages)
        IN  IF call'.op = "addMessage"
            THEN /\ ChatModel_rowCount(m_messages') = n + 1
                 /\ ChatModel_data(m_messages', n, "MessageTypeRole")
                       = IntVariant(MessageTypeInt(call'.type))
                 /\ ChatModel_data(m_messages', n, "MessageTextRole")
                       = StringVariant(call'.text)
                 /\ \A r \in 0..(n - 1), role \in ChatRoles :
                       ChatModel_data(m_messages', r, role)
                          = ChatModel_data(m_messages, r, role)
            ELSE m_messages' = m_messages ]_vars

\* An addMessage onto a list that already holds a row.
ChatModelAppendOnlyWitness ==
    /\ call.op = "addMessage"
    /\ ChatModel_rowCount(m_messages) >= 2
    /\ m_messages[1] # m_messages[2]

(* C9: the conversation view is a function of the chat model.  While the   *)
(* view's model is set, the document holds exactly one frame per model     *)
(* row, in row order, aligned by the row's sender type and filled with the *)
(* row's text (an empty text as "[Empty message]") rendered to HTML.       *)
ConversationViewShowsModel ==
    chatModel = "model" =>
        /\ Len(history) = Len(m_messages)
        /\ \A k \in 1..Len(m_messages) :
              /\ history[k].align =
                    (IF m_messages[k].type = "User" THEN "AlignRight" ELSE "AlignLeft")
              /\ history[k].html =
                    convertMarkdownToHtml(IF m_messages[k].text = <<>>
                                          THEN EmptyMessageText
                                          ELSE m_messages[k].text)

\* An addMessage shown by a view that already showed rows, one of them empty.
ConversationViewShowsModelWitness ==
    /\ chatModel = "model"
    /\ call.op = "addMessage"
    /\ Len(history) >= 2
    /\ \E k \in 1..Len(m_messages) : m_messages[k].text = <<>>
    /\ \E k \in 1..Len(m_messages) : m_messages[k].type = "User"
    /\ \E k \in 1..Len(m_messages) : m_messages[k].type = "LLM"

(* C2: the diff model always holds (path, content) pairs.  In every state  *)
(* reached by setFiles, clearDiffModel, addFile, removeFile and            *)
(* changeFileContent the two lists have the same length, so data() with    *)
(* FileContentRole reads an existing entry for every row below rowCount.   *)
DiffModelHoldsPairs ==
    /\ Len(m_filePaths) = Len(m_fileContents)
    /\ \A row \in 0..(DiffModel_rowCount(m_filePaths) - 1) :
          ~DiffModel_data(m_filePaths, m_fileContents, row, "FileContentRole").outOfRange

(* C10: after a reset of the diff model the connected diff viewer is       *)
(* determined by the new model contents alone.  With at least one row the  *)
(* current index is row 0 and the content widget was given the parsed diff *)
(* and the path of file 0; with no rows it holds an empty diff and an      *)
(* empty file name.                                                        *)
ResetShowsFirstFile ==
    (call.op \in {"setFiles", "clearDiffModel"} /\ diffView.connected) =>
        IF DiffModel_rowCount(m_filePaths) > 0
        THEN /\ diffView.currentIndex = 0
             /\ diffView.m_currentIndex = 0
             /\ diffView.m_fileName = getFilePath(m_filePaths, 0)
             /\ diffView.m_diffData =
                   renumber(parseDiffContent(getFileContent(m_fileContents, 0)), 1, 1, 1)
        ELSE /\ diffView.m_diffData = <<>>
             /\ diffView.m_fileName = <<>>

\* A reset to two files while row 1 was selected.
ResetShowsFirstFileWitness ==
    /\ call.op = "setFiles"
    /\ call.before = 1
    /\ diffView.connected
    /\ DiffModel_rowCount(m_filePaths) = 2
    /\ Len(m_fileContents) = 2
    /\ diffView.currentIndex = 0
    /\ Len(diffView.m_diffData) > 0

\* A reset to no files while a row was selected.
ResetShowsFirstFileEmptyWitness ==
    /\ call.op \in {"setFiles", "clearDiffModel"}
    /\ call.before = 1
    /\ diffView.connected
    /\ DiffModel_rowCount(m_filePaths) = 0
    /\ diffView.m_fileName = <<>>

(* C8: the naive parser returns exactly one record per '\n'-separated      *)
(* segment of its input, in input order: a segment that starts with '+'    *)
(* gives Added and one that starts with '-' gives Removed, both without    *)
(* the first character; any other segment, the empty one too, gives        *)
(* Unchanged with its text as it is.                                       *)

\* The position of the k-th line break of text; 0 for k = 0 and one past
\* the end for the break after the last one.
BreakPos(text, k) ==
    IF k = 0 THEN 0
    ELSE IF k > Cardinality({i \in 1..Len(text) : text[i] = "\n"}) THEN Len(text) + 1
    ELSE CHOOSE i \in 1..Len(text) :
            /\ text[i] = "\n"
            /\ Cardinality({j \in 1..i : text[j] = "\n"}) = k

\* The k-th segment (k >= 1): the text between two successive breaks.
Segment(text, k) == SubSeq(text, BreakPos(text, k - 1) + 1, BreakPos(text, k) - 1)

NaiveParserOneRecordPerSegment ==
    call.op = "naiveParseDiffContent" =>
        /\ Len(parsed) = Cardinality({i \in 1..Len(diffText) : diffText[i] = "\n"}) + 1
        /\ \A k \in 1..Len(parsed) :
              LET seg == Segment(diffText, k)
              IN  IF seg # <<>> /\ seg[1] = "+"
                  THEN parsed[k] = [changeType |-> "Added", text |-> Tail(seg)]
                  ELSE IF seg # <<>> /\ seg[1] = "-"
                  THEN parsed[k] = [changeType |-> "Removed", text |-> Tail(seg)]
                  ELSE parsed[k] = [changeType |-> "Unchanged", text |-> seg]

\* A text with an added, an empty and a removed segment was parsed.
NaiveParserWitness ==
    /\ call.op = "naiveParseDiffContent"
    /\ diffText = <<"+", "\n", "\n", "-">>
    /\ Len(parsed) = 3
    /\ parsed[2] = [changeType |-> "Unchanged", text |-> <<>>]

-----------------------------------------------------------------------------
(* C5: a received object with type "chatMessage", a string "text" and a    *)
(* "messageType" equal to "User" or "LLM" appends exactly one row to the    *)
(* chat model carrying that text and that sender type; the diff model and   *)
(* the requestPending flag stay as they were and errorReceived is not       *)
(* emitted.                                                                 *)

Signals(e) == { e[k] : k \in 1..Len(e) }

IsValidChatMessage(obj) ==
    /\ valueOf(obj, Str_type) = JString(Str_chatMessage)
    /\ isString(valueOf(obj, Str_text))
    /\ valueOf(obj, Str_messageType) \in {JString(Str_User), JString(Str_LLM)}

SenderOf(obj) ==
    IF valueOf(obj, Str_messageType) = JString(Str_User) THEN "User" ELSE "LLM"

ValidChatMessageAppendsOneRow ==
    [][ (call'.op = "processReceivedJson" /\ IsValidChatMessage(call'.obj)) =>
           /\ m_messages' = m_messages \o
                  << [type |-> SenderOf(call'.obj),
                      text |-> valueOf(call'.obj, Str_text).s] >>
           /\ UNCHANGED <<m_requestPending, m_filePaths, m_fileContents>>
           /\ "errorReceived" \notin Signals(emitted') ]_vars

\* An LLM message arrived after another message and became the last row.
ValidChatMessageWitness ==
    /\ call.op = "processReceivedJson"
    /\ call.obj = ChatMessageObj(JString(Str_LLM), JString(Str_hi))
    /\ Len(m_messages) = 2
    /\ m_messages[2] = [type |-> "LLM", text |-> Str_hi]
    /\ emitted = <<"chatMessageReceived", "rowsInserted">>

-----------------------------------------------------------------------------
(* C6: a received "diffResult" is all-or-nothing.  When "files" is an array *)
(* whose every element is an object with string "path" and string          *)
(* "content", the diff model becomes exactly those pairs in array order,    *)
(* whatever it held before; when "files" is missing, is not an array, or    *)
(* holds an invalid element, errorReceived is emitted and the diff model    *)
(* stays exactly as it was, even if earlier elements were valid.            *)

IsValidFile(fileVal) ==
    /\ isObject(fileVal)
    /\ isString(valueOf(fileVal.m, Str_path))
    /\ isString(valueOf(fileVal.m, Str_content))

HasValidFiles(obj) ==
    /\ isArray(valueOf(obj, Str_files))
    /\ \A k \in 1..Len(valueOf(obj, Str_files).a) :
           IsValidFile(valueOf(obj, Str_files).a[k])

DiffResultAllOrNothing ==
    [][ (/\ call'.op = "processReceivedJson"
         /\ valueOf(call'.obj, Str_type) = JString(Str_diffResult)) =>
           IF HasValidFiles(call'.obj)
           THEN LET files == valueOf(call'.obj, Str_files).a
                IN  /\ m_filePaths' =
                           [k \in 1..Len(files) |-> valueOf(files[k].m, Str_path).s]
                    /\ m_fileContents' =
                           [k \in 1..Len(files) |-> valueOf(files[k].m, Str_content).s]
                    /\ "errorReceived" \notin Signals(emitted')
           ELSE /\ "errorReceived" \in Signals(emitted')
                /\ UNCHANGED <<m_filePaths, m_fileContents>> ]_vars

\* An array with a valid element before an invalid one arrived while the
\* diff model held two rows, and the two rows are still there.
DiffResultAllOrNothingWitness ==
    /\ call.op = "processReceivedJson"
    /\ call.obj = DiffResultObj(JArray(<<File_g, JObject(<<Member(Str_path, JString(<<"f">>))>>)>>))
    /\ call.rowsBefore = 2
    /\ m_filePaths = << <<"f">>, <<"g">> >>
    /\ emitted = <<"errorReceived">>

\* A valid one-file array replaced a two-row diff model.
DiffResultReplacesWitness ==
    /\ call.op = "processReceivedJson"
    /\ call.obj = DiffResultObj(JArray(<<File_g>>))
    /\ call.rowsBefore = 2
    /\ m_filePaths = << <<"g">> >>
    /\ m_fileContents = << <<"-", "a", "\n", "b">> >>

-----------------------------------------------------------------------------
(* C7: a received "requestStatus" with a boolean "status" makes            *)
(* requestPending equal to that boolean, and requestPendingChanged is       *)
(* emitted exactly when the value changed; a "requestStatus" whose          *)
(* "status" is missing or not a boolean emits errorReceived and leaves      *)
(* requestPending as it was.                                                *)

RequestStatusSetsPending ==
    [][ (/\ call'.op = "processReceivedJson"
         /\ valueOf(call'.obj, Str_type) = JString(Str_requestStatus)) =>
           IF isBool(valueOf(call'.obj, Str_status))
           THEN /\ m_requestPending' = valueOf(call'.obj, Str_status).b
                /\ ("requestPendingChanged" \in Signals(emitted'))
                       <=> (m_requestPending' # m_requestPending)
                /\ "errorReceived" \notin Signals(emitted')
           ELSE /\ "errorReceived" \in Signals(emitted')
                /\ "requestPendingChanged" \notin Signals(emitted')
                /\ UNCHANGED m_requestPending ]_vars

\* status true arrived while a request was already pending: the flag is
\* set again and nothing but requestStatusChanged is emitted.
RequestStatusSetsPendingWitness ==
    /\ call.op = "processReceivedJson"
    /\ call.obj = <<Member(Str_type, JString(Str_requestStatus)),
                    Member(Str_status, JBool(TRUE))>>
    /\ m_requestPending = TRUE
    /\ emitted = <<"requestStatusChanged">>

-----------------------------------------------------------------------------
(* C3: over any sequence of appends by the external process and of         *)
(* fileChanged notifications, every newline-terminated JSON line of the     *)
(* file is passed to processReceivedJson exactly once, in the order of      *)
(* appending: the objects passed so far are the objects of the first        *)
(* lines of the file, each once.                                            *)

NLCount(fileText) == Cardinality({i \in 1..Len(fileText) : fileText[i] = NL})

\* The position of the k-th newline; 0 for k = 0.
NLPos(fileText, k) ==
    IF k = 0 THEN 0
    ELSE CHOOSE i \in 1..Len(fileText) :
            /\ fileText[i] = NL
            /\ Cardinality({j \in 1..i : fileText[j] = NL}) = k

CompleteLines(fileText) ==
    [k \in 1..NLCount(fileText) |->
        SubSeq(fileText, NLPos(fileText, k - 1) + 1, NLPos(fileText, k) - 1)]

IsJsonObjectLine(line) == ~fromJson(line).error /\ fromJson(line).isObject

\* The objects of the lines that hold a JSON object, in the order of the lines.
ObjectsOf(lines) ==
    LET jsonLines == SelectSeq(lines, IsJsonObjectLine)
    IN  [k \in 1..Len(jsonLines) |-> fromJson(jsonLines[k]).obj]

IsPrefix(p, q) == Len(p) <= Len(q) /\ SubSeq(q, 1, Len(p)) = p

EveryLineDispatchedOnce == IsPrefix(received, ObjectsOf(CompleteLines(commFile)))

-----------------------------------------------------------------------------
(* C4: newline-buffer reassembly in onFileChanged.  With data the held     *)
(* text of m_buffer followed by the text the call reads: the lines the      *)
(* call takes are the newline-terminated lines of data, each one message,   *)
(* dispatched from left to right within the call, and what follows the      *)
(* last newline of data is held in m_buffer and not dispatched.             *)

-----------------------------------------------------------------------------
(* C11: in the diff viewer's parseDiffContent a hunk-header line           *)
(* '@@ -a[,b] +c[,d] @@...' gives no record and resets the counters: the    *)
(* records after it are numbered from the header, the next Removed or       *)
(* Unchanged record having originalLineNumber a, the next Added or          *)
(* Unchanged record modifiedLineNumber c, later records of the hunk         *)
(* continuing consecutively.                                                *)

TextLines(text) ==
    [k \in 1..(Cardinality({i \in 1..Len(text) : text[i] = "\n"}) + 1) |-> Segment(text, k)]

IsHeaderLine(line) == line \in {Line_header, Line_headerCounts}

\* The numbers a and c a header line names.
HeaderStart(line) ==
    IF line = Line_header THEN [a |-> 2, c |-> 3] ELSE [a |-> 5, c |-> 7]

StartsWithDashes(line) == Len(line) >= 3 /\ SubSeq(line, 1, 3) = <<"-", "-", "-">>

KindOf(line) ==
    IF line # <<>> /\ line[1] = "+" THEN "Added"
    ELSE IF line # <<>> /\ line[1] = "-" THEN "Removed"
    ELSE "Unchanged"

\* Line i is looked at by the loop: it is not the line that follows a
\* looked-at line starting with "---".
RECURSIVE Examined(_, _)
Examined(lines, i) ==
    IF i = 1 THEN TRUE
    ELSE ~(Examined(lines, i - 1) /\ StartsWithDashes(lines[i - 1]))

IsRecordLine(lines, i) ==
    Examined(lines, i) /\ ~IsHeaderLine(lines[i]) /\ ~StartsWithDashes(lines[i])

RecordLines(lines) == {i \in 1..Len(lines) : IsRecordLine(lines, i)}

\* The line of the k-th record.
RecordLine(lines, k) ==
    CHOOSE i \in RecordLines(lines) :
        Cardinality({j \in RecordLines(lines) : j <= i}) = k

\* The last header line before line i, 0 when there is none; with
\* examinedOnly the header lines the loop does not look at do not count.
LastHeader(lines, i, examinedOnly) ==
    LET hs == {h \in 1..(i - 1) :
                  IsHeaderLine(lines[h]) /\ (examinedOnly => Examined(lines, h))}
    IN  IF hs = {} THEN 0 ELSE CHOOSE h \in hs : \A g \in hs : g <= h

\* The record of line i when numbering starts at the last header before
\* it (at 1 and 1 without a header).
NumberedRecord(lines, i, examinedOnly) ==
    LET h == LastHeader(lines, i, examinedOnly)
        a == IF h = 0 THEN 1 ELSE HeaderStart(lines[h]).a
        c == IF h = 0 THEN 1 ELSE HeaderStart(lines[h]).c
        since == {j \in (h + 1)..(i - 1) : IsRecordLine(lines, j)}
        kind == KindOf(lines[i])
    IN  [changeType |-> kind,
         text |-> IF kind = "Unchanged" THEN lines[i] ELSE Tail(lines[i]),
         originalLineNumber |->
             IF kind = "Added" THEN 0
             ELSE a + Cardinality({j \in since : KindOf(lines[j]) # "Added"}),
         modifiedLineNumber |->
             IF kind = "Removed" THEN 0
             ELSE c + Cardinality({j \in since : KindOf(lines[j]) # "Removed"})]

HunkHeaderNumbersRecords ==
    call.op = "parseDiffContent" =>
        LET lines == TextLines(diffText)
        IN  /\ Len(parsed) = Cardinality(RecordLines(lines))
            /\ \A k \in 1..Len(parsed) :
                  LastHeader(lines, RecordLine(lines, k), FALSE) # 0 =>
                      parsed[k] = NumberedRecord(lines, RecordLine(lines, k), FALSE)

\* Every record is an Added one: the text is a full addition.
IsFullAdditionText(lines) ==
    /\ RecordLines(lines) # {}
    /\ \A i \in RecordLines(lines) : KindOf(lines[i]) = "Added"

\* What parseDiffContent returns: the numbering is that of the header
\* lines the loop looks at, and a full addition is numbered 0 and 0
\* throughout.
ParserNumbersFromExaminedHeaders ==
    call.op = "parseDiffContent" =>
        LET lines == TextLines(diffText)
        IN  /\ Len(parsed) = Cardinality(RecordLines(lines))
            /\ \A k \in 1..Len(parsed) :
                  LET i == RecordLine(lines, k)
                  IN  IF IsFullAdditionText(lines)
                      THEN parsed[k] = DiffLine("Added", Tail(lines[i]), 0, 0)
                      ELSE parsed[k] = NumberedRecord(lines, i, TRUE)

\* A header with counts was followed by a removed, an added and an
\* unchanged line.
ParserNumbersFromHeaderReached ==
    /\ call.op = "parseDiffContent"
    /\ diffText = JoinLines(<<Line_headerCounts, Line_removed, Line_added, Line_unchanged>>)
    /\ parsed = << DiffLine("Removed", <<"a">>, 5, 0),
                   DiffLine("Added", <<"a">>, 0, 7),
                   DiffLine("Unchanged", <<" ", "a">>, 6, 8) >>

-----------------------------------------------------------------------------
(* C12: a complete line that is not valid JSON, or is valid JSON but not   *)
(* an object, emits errorReceived, changes neither the chat model nor the   *)
(* diff model nor requestPending, and does not stop the call: every later   *)
(* complete line of the buffer is still dispatched by the same call.  So    *)
(* the call leaves the models as the objects of its lines alone leave       *)
(* them, and emits one errorReceived more for each of its other lines.      *)

\* The GUI after processReceivedJson of each object in turn.
RECURSIVE AfterObjects(_, _)
AfterObjects(g, objs) ==
    IF objs = <<>> THEN g
    ELSE AfterObjects(processReceivedJson(g, Head(objs)), Tail(objs))

CountOf(signal, e) == Cardinality({k \in 1..Len(e) : e[k] = signal})

BadLines(lines) == {k \in 1..Len(lines) : ~IsJsonObjectLine(lines[k])}

BadLineIsSkipped ==
    [][ call'.op = "onFileChanged" =>
           LET after == AfterObjects(Gui, ObjectsOf(call'.lines))
           IN  /\ received' = received \o ObjectsOf(call'.lines)
               /\ m_messages' = after.m_messages
               /\ m_requestPending' = after.m_requestPending
               /\ m_filePaths' = after.m_filePaths
               /\ m_fileContents' = after.m_fileContents
               /\ CountOf("errorReceived", emitted') =
                      CountOf("errorReceived", after.emitted)
                          + Cardinality(BadLines(call'.lines))
               /\ BadLines(call'.lines) = 1..Len(call'.lines) =>
                      UNCHANGED <<chatVars, diffVars>> ]_vars

\* One call took a line that is not JSON, an array document and a chat
\* message: two errors, then the message reached the chat model.
BadLineIsSkippedWitness ==
    /\ call.op = "onFileChanged"
    /\ Len(call.lines) = 3
    /\ fromJson(call.lines[1]).error
    /\ call.lines[2] = <<LBracket, RBracket>>
    /\ call.lines[3] = toJson(ChatMessageObj(JString(Str_User), JString(Str_hi)))
    /\ emitted = <<"errorReceived", "errorReceived", "chatMessageReceived", "rowsInserted">>
    /\ m_messages = << [type |-> "User", text |-> Str_hi] >>

-----------------------------------------------------------------------------
(* C13: a received "chatMessage" that lacks a string "text", lacks a       *)
(* string "messageType", or whose "messageType" is neither "User" nor       *)
(* "LLM" emits errorReceived and never chatMessageReceived; the chat        *)
(* model's rows, requestPending and the diff model stay as they were.       *)

InvalidChatMessageIsRejected ==
    [][ (/\ call'.op = "processReceivedJson"
         /\ valueOf(call'.obj, Str_type) = JString(Str_chatMessage)
         /\ ~IsValidChatMessage(call'.obj)) =>
           /\ "errorReceived" \in Signals(emitted')
           /\ "chatMessageReceived" \notin Signals(emitted')
           /\ UNCHANGED <<m_messages, m_requestPending, m_filePaths, m_fileContents>> ]_vars

\* A chatMessage of messageType "Bot" arrived when the chat model held a
\* row and a request was pending.
InvalidChatMessageWitness ==
    /\ call.op = "processReceivedJson"
    /\ call.obj = ChatMessageObj(JString(Str_Bot), JString(Str_hi))
    /\ Len(m_messages) = 1
    /\ m_requestPending
    /\ emitted = <<"errorReceived">>

-----------------------------------------------------------------------------
(* C14: a received object of type "diffApplied" leaves the diff model with *)
(* zero rows, both lists empty, whatever the model held and whatever other  *)
(* fields the object carries; the chat model is unchanged.                  *)

DiffAppliedClearsDiffModel ==
    [][ (/\ call'.op = "processReceivedJson"
         /\ valueOf(call'.obj, Str_type) = JString(Str_diffApplied)) =>
           /\ m_filePaths' = <<>>
           /\ m_fileContents' = <<>>
           /\ DiffModel_rowCount(m_filePaths') = 0
           /\ UNCHANGED <<m_messages, m_requestPending>> ]_vars

\* A diffApplied carrying a "files" field arrived when the diff model held
\* two rows and the chat model one.
DiffAppliedWitness ==
    /\ call.op = "processReceivedJson"
    /\ call.obj = <<Member(Str_type, JString(Str_diffApplied)),
                    Member(Str_files, JArray(<<File_f>>))>>
    /\ call.rowsBefore = 2
    /\ m_filePaths = <<>>
    /\ m_fileContents = <<>>
    /\ Len(m_messages) = 1
    /\ emitted = <<"diffApplied", "modelReset">>

-----------------------------------------------------------------------------
(* C15: a received object whose "type" is missing or is none of            *)
(* "chatMessage", "requestStatus", "diffApplied", "diffResult" is dropped   *)
(* silently: no signal is emitted, errorReceived neither, and the chat      *)
(* model, the diff model and requestPending are unchanged.                  *)

KnownTypes ==
    { JString(Str_chatMessage), JString(Str_requestStatus),
      JString(Str_diffApplied), JString(Str_diffResult) }

UnknownTypeIsDropped ==
    [][ (/\ call'.op = "processReceivedJson"
         /\ valueOf(call'.obj, Str_type) \notin KnownTypes) =>
           /\ emitted' = <<>>
           /\ UNCHANGED <<m_messages, m_requestPending, m_filePaths, m_fileContents>> ]_vars

\* An object of type "ping" arrived when both models held rows.
UnknownTypeWitness ==
    /\ call.op = "processReceivedJson"
    /\ call.obj = <<Member(Str_type, JString(Str_ping)), Member(Str_text, JString(Str_hi))>>
    /\ Len(m_messages) = 2
    /\ Len(m_filePaths) = 2
    /\ m_requestPending
    /\ emitted = <<>>

-----------------------------------------------------------------------------
(* C16: sendChatMessage(m) appends exactly one line to the communication   *)
(* file, the JSON object with the members "type":"chatMessage" and          *)
(* "text":m followed by '\n', and applyDiff appends the one line of the     *)
(* object with the member "type":"applyDiff"; what the file held before     *)
(* stays in front of it, neither model changes, and when the file cannot    *)
(* be opened nothing is written and no signal is emitted.                   *)

\* The object and file text say: text is fileText followed by one line
\* holding exactly the members given, and a newline.
IsAppendedLine(text, fileText, members) ==
    /\ Len(text) >= Len(fileText) + 2
    /\ SubSeq(text, 1, Len(fileText)) = fileText
    /\ text[Len(text)] = NL
    /\ LET line == SubSeq(text, Len(fileText) + 1, Len(text) - 1)
       IN  /\ NLCount(line) = 0
           /\ IsJsonObjectLine(line)
           /\ Len(fromJson(line).obj) = Cardinality(members)
           /\ { fromJson(line).obj[k] : k \in 1..Len(fromJson(line).obj) } = members

SendAppendsOneLine ==
    [][ call'.op \in {"sendChatMessage", "applyDiff"} =>
           /\ UNCHANGED <<m_messages, m_requestPending, m_filePaths, m_fileContents>>
           /\ emitted' = <<>>
           /\ IF ~call'.opened THEN commFile' = commFile
              ELSE IF call'.op = "sendChatMessage"
              THEN IsAppendedLine(commFile', commFile,
                       { Member(Str_type, JString(Str_chatMessage)),
                         Member(Str_text, JString(call'.message)) })
              ELSE IsAppendedLine(commFile', commFile,
                       { Member(Str_type, JString(Str_applyDiff)) }) ]_vars

\* A text with a line break in it was sent after the external process
\* had written a line: the file holds that line and then one more.
SendAppendsOneLineWitness ==
    /\ call.op = "sendChatMessage"
    /\ call.opened
    /\ call.message = <<"a", "\n">>
    /\ NLCount(commFile) = 2
    /\ CompleteLines(commFile)[1] = toJson(Obj_requestStatus)
    /\ valueOf(fromJson(CompleteLines(commFile)[2]).obj, Str_text) = JString(<<"a", "\n">>)

\* applyDiff could not open the file that held a line: nothing changed.
SendFailsSilentlyReached ==
    /\ call.op = "applyDiff"
    /\ ~call.opened
    /\ NLCount(commFile) = 1
    /\ emitted = <<>>

-----------------------------------------------------------------------------
(* C17: the GUI never receives its own outgoing messages: no line that     *)
(* sendJson wrote to the communication file is passed to                    *)
(* processReceivedJson of the same CommunicationManager, and handling the   *)
(* notification that follows a send emits no errorReceived.                 *)

\* The objects sendChatMessage and applyDiff write.
SentObjects ==
    { QJsonObjectOf(<<Member(Str_type, JString(Str_chatMessage)),
                      Member(Str_text, JString(message))>>) : message \in SendTexts }
        \cup { <<Member(Str_type, JString(Str_applyDiff))>> }

NeverReceivesOwnMessages ==
    /\ \A k \in 1..Len(received) : received[k] \notin SentObjects
    /\ (call.op = "onFileChanged" /\ \A k \in 1..Len(call.lines) :
            IsJsonObjectLine(call.lines[k]) /\ fromJson(call.lines[k]).obj \in SentObjects)
           => "errorReceived" \notin Signals(emitted)

-----------------------------------------------------------------------------
(* C18: start-up handshake.  ready() is emitted and "READY\n" written to   *)
(* stderr exactly once per CommunicationManager, and only after the         *)
(* constructor has created or truncated the communication file to empty     *)
(* and registered it with the watcher; when the file cannot be created or   *)
(* truncated no watcher is registered and READY is never written.           *)

ReadyHandshake ==
    /\ [](stderrText \in {<<>>, Str_READY})
    /\ [][ (phase = "new" /\ phase' = "constructed") =>
               /\ commFile' = <<>>
               /\ fileExists'
               /\ watched'
               /\ stderrText' = <<>> ]_vars
    /\ [][ stderrText' # stderrText =>
               /\ phase = "constructed"
               /\ stderrText = <<>>
               /\ stderrText' = Str_READY
               /\ emitted' = <<"ready">> ]_vars
    /\ [](phase = "failed" => (~watched /\ ~readyPending /\ stderrText = <<>>))
    /\ [](phase = "constructed" => <>(stderrText = Str_READY))

\* READY has just been written by a constructed manager; the file is
\* empty and watched.
ReadyHandshakeWitness ==
    /\ call.op = "sendReadySignal"
    /\ phase = "constructed"
    /\ stderrText = Str_READY
    /\ emitted = <<"ready">>
    /\ commFile = <<>>
    /\ fileExists
    /\ watched

\* The constructor could not create the file.
ReadyNeverWrittenReached ==
    /\ phase = "failed"
    /\ call.op = "write"
    /\ stderrText = <<>>

-----------------------------------------------------------------------------
(* C19: after every fileChanged notification that onFileChanged handles,   *)
(* on every exit path, the path of the communication file is registered     *)
(* with the watcher again, so that a later append is notified.              *)

WatcherHasPathAfterNotification ==
    call.op = "onFileChanged" => watched

-----------------------------------------------------------------------------
(* C20: DiffModel treats an out-of-range index, one that is negative or    *)
(* not below the current count, as a harmless no-op: getFileContent and     *)
(* getFilePath return the empty string, removeFile and changeFileContent    *)
(* change neither list and emit no model signal, rowCount stays.            *)

IndexedOps == {"getFileContent", "getFilePath", "removeFile", "changeFileContent"}

OutOfRangeStep ==
    /\ call'.op \in IndexedOps
    /\ (call'.index < 0 \/ call'.index >= DiffModel_rowCount(m_filePaths))

IsNoOpStep ==
    /\ UNCHANGED <<m_filePaths, m_fileContents>>
    /\ DiffModel_rowCount(m_filePaths') = DiffModel_rowCount(m_filePaths)
    /\ emitted' = <<>>
    /\ call'.op \in {"getFileContent", "getFilePath"} => call'.result = <<>>

OutOfRangeIsNoOp == [][ OutOfRangeStep => IsNoOpStep ]_vars

\* What holds: the same while the two lists have one length.
OutOfRangeIsNoOpOnPairs ==
    [][ (OutOfRangeStep /\ Len(m_filePaths) = Len(m_fileContents)) => IsNoOpStep ]_vars


-----------------------------------------------------------------------------
(* C21: DiffView::onDataChanged refreshes the displayed diff only when the *)
(* changed index is the list view's current index and the changed roles     *)
(* include FileContentRole: a content change to any other row, or a change  *)
(* with other roles, leaves the content widget's diff lines and file name   *)
(* unchanged.                                                               *)

ChangedRoles == IF call'.op = "changeFileContent" THEN {"FileContentRole"} ELSE call'.roles

\* A change of a row that is not the current row, or of other roles.
OtherRowOrRolesStep ==
    /\ call'.op \in {"changeFileContent", "dataChanged"}
    /\ \/ call'.index # diffView.currentIndex
       \/ "FileContentRole" \notin ChangedRoles

DisplayUnchanged ==
    /\ diffView'.m_diffData = diffView.m_diffData
    /\ diffView'.m_fileName = diffView.m_fileName

RefreshOnlyForCurrentContentOnPairs ==
    [][ (OtherRowOrRolesStep /\ Len(m_filePaths) = Len(m_fileContents))
            => DisplayUnchanged ]_vars

\* What holds as well: a content change of the current row of a connected
\* viewer shows the parsed new content.
CurrentContentChangeIsShown ==
    [][ ( /\ call'.op = "changeFileContent"
          /\ diffView.connected
          /\ call'.index >= 0
          /\ call'.index < DiffModel_rowCount(m_filePaths)
          /\ call'.index < Len(m_fileContents)
          /\ call'.index = diffView.currentIndex )
        => /\ diffView'.m_diffData =
                 renumber(parseDiffContent(m_fileContents'[call'.index + 1]), 1, 1, 1)
           /\ diffView'.m_fileName = m_filePaths[call'.index + 1] ]_vars

\* The display was changed by a content change of a row other than the
\* current one.
OtherRowChangedDisplayReached ==
    /\ call.op = "changeFileContent"
    /\ call.index # diffView.currentIndex
    /\ diffView.m_fileName = <<>>
    /\ Len(m_fileContents) > Len(m_filePaths)

-----------------------------------------------------------------------------
(* C22: the diff viewer's parseDiffContent discards only diff metadata:    *)
(* every input line that is neither a hunk header nor a '---' / '+++'       *)
(* file-header line yields exactly one record, in input order, tagged       *)
(* Added for a leading '+', Removed for a leading '-' and Unchanged         *)
(* otherwise; no content line is dropped.                                   *)

StartsWithPluses(line) == Len(line) >= 3 /\ SubSeq(line, 1, 3) = <<"+", "+", "+">>

IsContentLine(line) ==
    ~IsHeaderLine(line) /\ ~StartsWithDashes(line) /\ ~StartsWithPluses(line)

\* The change type and the text of the record a content line stands for.
ContentRecord(line) ==
    [changeType |-> KindOf(line),
     text |-> IF KindOf(line) = "Unchanged" THEN line ELSE Tail(line)]

\* The records of the content lines among lines[i..], in input order.
RECURSIVE ContentRecords(_, _)
ContentRecords(lines, i) ==
    IF i > Len(lines) THEN <<>>
    ELSE IF IsContentLine(lines[i])
         THEN <<ContentRecord(lines[i])>> \o ContentRecords(lines, i + 1)
         ELSE ContentRecords(lines, i + 1)

TagAndText(records) ==
    [k \in 1..Len(records) |->
        [changeType |-> records[k].changeType, text |-> records[k].text]]

\* want[i..] can be read off have[j..] in order, each element of have
\* being used for one element of want at most.
RECURSIVE IsSubsequenceFrom(_, _, _, _)
IsSubsequenceFrom(want, i, have, j) ==
    IF i > Len(want) THEN TRUE
    ELSE IF j > Len(have) THEN FALSE
    ELSE IF want[i] = have[j] THEN IsSubsequenceFrom(want, i + 1, have, j + 1)
    ELSE IsSubsequenceFrom(want, i, have, j + 1)

NoContentLineDropped ==
    call.op = "parseDiffContent" =>
        IsSubsequenceFrom(ContentRecords(TextLines(diffText), 1), 1, TagAndText(parsed), 1)

\* What holds: the same for a text none of whose lines starts with "---".
NoContentLineDroppedWithoutDashes ==
    (call.op = "parseDiffContent"
       /\ \A i \in 1..Len(TextLines(diffText)) : ~StartsWithDashes(TextLines(diffText)[i])) =>
        IsSubsequenceFrom(ContentRecords(TextLines(diffText), 1), 1, TagAndText(parsed), 1)

\* What holds as well: a line is dropped only as the line that follows a
\* line starting with "---"; every other content line has its record.
OnlyLineAfterDashesDropped ==
    call.op = "parseDiffContent" =>
        LET lines == TextLines(diffText)
            kept == [k \in 1..Cardinality(RecordLines(lines)) |->
                        ContentRecord(lines[RecordLine(lines, k)])]
        IN  TagAndText(parsed) = kept

\* A removed line after a "---" line got no record.
ContentLineDroppedReached ==
    /\ call.op = "parseDiffContent"
    /\ diffText = JoinLines(<<Line_oldFile, Line_removed>>)
    /\ parsed = <<>>
====
